---- MODULE Spec2Model ----
(***************************************************************************)
(* BuildExpenseLedger: the on-chain ledger contract (Solidity) together    *)
(* with the part of the FHE runtime it calls (input verification,          *)
(* homomorphic addition on euint32, the access-control list) and the       *)
(* chain it runs on (block time, event log, sequential transactions).      *)
(*                                                                         *)
(* A ciphertext handle is a number; 0 is bytes32(0), the handle of an      *)
(* uninitialized euint32.  The runtime keeps, for every handle it knows,   *)
(* the 32-bit plaintext the handle encrypts; nothing in the contract       *)
(* reads it.                                                               *)
(*                                                                         *)
(* The FHE library is imported, not part of the repository: what it does   *)
(* is taken from the contract's call sites and the tests.  fromExternal    *)
(* accepts a handle only under a proof issued for that handle, the caller  *)
(* and this contract; FHE.add yields a handle never seen before (handles   *)
(* are collision-free hashes of the operation and its operands); grants    *)
(* are per handle.                                                         *)
(*                                                                         *)
(* The second half is the client: the page Index, and the hook             *)
(* useExpenseLedger with its four operations (addExpense, decryptTotal,    *)
(* loadEncryptedTotal, loadExpenseRecords) as flows that are suspended at  *)
(* every await, where the chain and the other flows may take steps.  The   *)
(* wallet, the provider, the encryption SDK and the decryption service are *)
(* imported as well: each awaited call to them settles with a result or    *)
(* with an error.                                                          *)
(***************************************************************************)
EXTENDS Integers, Sequences, FiniteSets, TLC

(* ------------------------------ bounds -------------------------------- *)

\* successful addExpense transactions in one behaviour
MaxAdds == 3

(* ----------------------------- constants ------------------------------ *)

\* euint32: a 32-bit plaintext is kept as two 16-bit halves, [hi, lo],
\* standing for hi * 2^16 + lo
Half == 65536
Uint32(hi, lo) == [hi |-> hi, lo |-> lo]
MaxUint32 == Uint32(Half - 1, Half - 1)

\* bytes32(0), what an unset euint32 storage slot reads as
ZeroHandle == 0

Users == {"alice", "bob"}
ThisContract == "BuildExpenseLedger"
OtherContract == "OtherContract"
Addresses == Users \cup {ThisContract, OtherContract}

\* the encrypted inputs created off-chain,
\* createEncryptedInput(contract, user).add32(value).encrypt(), in the
\* order of their creation; the handle of the k-th is k
EncryptedInputs ==
    << [user |-> "alice", contract |-> ThisContract, value |-> Uint32(0, 1000)],
       [user |-> "alice", contract |-> ThisContract, value |-> MaxUint32],
       [user |-> "bob", contract |-> ThisContract, value |-> Uint32(0, 2000)],
       [user |-> "bob", contract |-> OtherContract, value |-> Uint32(0, 500)] >>

\* category strings: one the client offers, one it does not
Categories == {"materials", "?"}

\* an input proof attests one handle for one (user, contract) pair;
\* EmptyProof stands for bytes that no input verifier ever produced
EmptyProof == [handle |-> ZeroHandle, userAddress |-> "none", contractAddress |-> "none"]

(* -------------------------- client constants -------------------------- *)

\* operations of the hook called in one behaviour
MaxOps == 3

\* undefined (a useState with no value, a missing argument)
Undefined == [undefined |-> TRUE]

\* an environment variable that is not set, or set to nothing
NoAddress == ""

\* the fallback in Index.tsx, 0x5FbDB2315678afecb367f032d93F642f64180aa3:
\* the address a local node gives the first contract deployed on it
DefaultContractAddress == ThisContract

\* chain ids: the local Hardhat node, and Sepolia
HardhatChainId == 31337
SepoliaChainId == 11155111

\* what the hook needs from the wallet and the SDK besides the contract
\* address
Requirements == {"ethersSigner", "fhevmInstance", "address", "ethersProvider"}

\* the connected account (useAccount().address)
address == "alice"

\* the calls of the hook that can be under way together: two addExpense,
\* one loadEncryptedTotal, one decryptTotal
AddFlowIds == {"add1", "add2"}
FlowIds == AddFlowIds \cup {"load", "decrypt"}
NoFlow == [pc |-> "idle"]
Nothing == [op |-> "none"]

\* a text is a sequence of pieces: single words where the code looks into
\* the text, whole sentences elsewhere; no text at all is the empty one
NoMessage == <<>>

\* an Error: its message, its reason (ethers sets one on some errors), its
\* code, and what went wrong
Error(text, reason, code, cause) ==
    [message |-> text, reason |-> reason, code |-> code, cause |-> cause]
NoError == Error(<<>>, <<>>, "none", "none")

\* new Error(text), thrown by the hook itself
Thrown(text) == Error(<<text>>, <<>>, "none", "client")

\* how an awaited call to the provider or to the contract fails: the node
\* cannot be reached (fetch fails, or ethers wraps the failure), or the
\* call is refused
FetchError == Error(<<"Failed to fetch">>, <<>>, "none", "network")
RpcErrors ==
    { FetchError,
      Error(<<"could not coalesce error">>, <<>>, "UNKNOWN_ERROR", "network"),
      Error(<<"missing revert data">>, <<"execution reverted">>, "CALL_EXCEPTION", "chain") }

\* how the wallet refuses a request (EIP-1193 errors 4001 and 4100)
WalletErrors ==
    { Error(<<"user rejected action">>, <<"rejected">>, "ACTION_REJECTED", "wallet"),
      Error(<<"The requested account and/or method has not been", "authorized",
              "by the user.">>, <<>>, "4100", "wallet") }

\* how the decryption service refuses a handle the user holds no grant
\* over (or none the service has seen yet)
NotAuthorizedError ==
    Error(<<"User", address, "is", "not", "authorized", "to user decrypt handle">>,
          <<>>, "none", "acl")

\* the amounts the hook's addExpense is called with
Amounts == {Uint32(0 - 1, 0), Uint32(0, 0), Uint32(0, 1000), MaxUint32}

\* the category the dialog starts with
OfferedCategories == {"materials"}

VARIABLES
    _encryptedMonthlyTotals,  \* mapping(address => euint32)
    _expenseRecords,          \* mapping(address => ExpenseRecord[])
    _hasInitialized,          \* mapping(address => bool)
    events,                   \* the contract's event log, in emission order
    ciphertexts,              \* FHE runtime: handle -> plaintext it encrypts
    inputProofs,              \* FHE runtime: input proofs issued by encrypt()
    acl,                      \* FHE runtime: persistent <<handle, address>> grants
    fheAdds,                  \* FHE runtime: the FHE.add computations performed
    nextHandle,               \* FHE runtime: next unused handle
    now,                      \* block.timestamp of the latest block
    added,                    \* per user, the successful addExpense calls so far
    lastCall,                 \* the call that has just returned and its outcome,
                              \* Idle once the caller has taken it
    viteContractAddress,      \* import.meta.env.VITE_CONTRACT_ADDRESS
    chainId,                  \* useChainId()
    available,                \* which of signer, instance, address, provider are defined
    encryptedTotal,           \* useState: last handle read, as a hex string
    decryptedTotal,           \* useState: last plaintext decrypted
    expenseRecords,           \* useState: last record list read
    isLoading,                \* useState: the loading flag
    message,                  \* useState: the message shown to the user
    flows,                    \* the calls of the hook's operations under way,
                              \* each suspended at an await
    mempool,                  \* the transactions the client has sent, in order
    settled,                  \* the call that settled last and how, until the next
                              \* call is made
    started,                  \* how many operations of the hook were called
    showNewExpense,           \* useState of Index: the new-expense dialog is open
    dialog,                   \* useState of the dialog: amount, category, error
    submitting,               \* the add calls a handleSubmit of the dialog awaits
    toast                     \* the toast handleAddExpense raised last

contractVars == <<_encryptedMonthlyTotals, _expenseRecords, _hasInitialized>>
runtimeVars == <<ciphertexts, inputProofs, acl, fheAdds, nextHandle>>
chainVars == <<_encryptedMonthlyTotals, _expenseRecords, _hasInitialized, events,
               ciphertexts, inputProofs, acl, fheAdds, nextHandle, now, added>>
configVars == <<viteContractAddress, chainId, available>>
localVars == <<encryptedTotal, decryptedTotal, expenseRecords>>
dialogVars == <<showNewExpense, dialog, submitting, toast>>
clientVars == <<configVars, localVars, isLoading, message, flows, mempool,
                settled, started, dialogVars>>
vars == <<chainVars, lastCall, clientVars>>

(* --------------------------- read accessors --------------------------- *)

getEncryptedMonthlyTotal(user) == _encryptedMonthlyTotals[user]

getExpenseRecordCount(user) == Len(_expenseRecords[user])

hasInitialized(user) == _hasInitialized[user]

\* faulty variant: <= for <
RecordIndexInBounds_Inclusive(user, index) == index <= Len(_expenseRecords[user])

\* require(index < _expenseRecords[user].length, ...)
RecordIndexInBounds(user, index) == index < Len(_expenseRecords[user])

\* ExpenseRecord memory record = _expenseRecords[user][index]; return (...)
\* Solidity arrays are 0-based, sequences 1-based; an array read past the
\* end panics
ArrayPanic == "Panic(0x32)"
getExpenseRecord(user, index) ==
    IF index + 1 \in DOMAIN _expenseRecords[user]
    THEN LET record == _expenseRecords[user][index + 1]
         IN  [ok |-> TRUE, ret |-> <<record.timestamp, record.category>>]
    ELSE [ok |-> FALSE, ret |-> ArrayPanic]

(* ----------------------------- FHE runtime ---------------------------- *)

\* faulty variant: the proof is not checked against the caller
VerifyInput_AnyUser(handle, proof, user, contract) ==
    /\ proof \in inputProofs
    /\ proof.handle = handle
    /\ proof.contractAddress = contract

\* faulty variant: the proof is not checked against the contract
VerifyInput_AnyContract(handle, proof, user, contract) ==
    /\ proof \in inputProofs
    /\ proof.handle = handle
    /\ proof.userAddress = user

\* FHE.fromExternal: the proof must be one the input verifier issued, for
\* this handle, this caller and this contract
VerifyInput(handle, proof, user, contract) ==
    /\ proof \in inputProofs
    /\ proof.handle = handle
    /\ proof.userAddress = user
    /\ proof.contractAddress = contract

\* ACL.isAllowed for the calling contract: a persistent grant, or a
\* transient one made earlier in the same transaction
IsAllowed(handle, account, transient) ==
    \/ <<handle, account>> \in acl
    \/ (account = ThisContract /\ handle \in transient)

\* faulty variant: the sum is dropped, the left operand stays
FheAddPlain_KeepsLeft(x, y) == x

\* faulty variant: the sum stops at 2^32 - 1
FheAddPlain_Saturating(x, y) ==
    LET lo == x.lo + y.lo
        hi == x.hi + y.hi + (lo \div Half)
    IN  IF hi >= Half THEN MaxUint32 ELSE Uint32(hi, lo % Half)

\* FHE.add on euint32: addition modulo 2^32, the carry out of the high
\* half is dropped
FheAddPlain(x, y) ==
    LET lo == x.lo + y.lo
        hi == x.hi + y.hi + (lo \div Half)
    IN  Uint32(hi % Half, lo % Half)

\* userDecrypt: the plaintext, or Denied when the user or the contract holds
\* no grant over the handle
Denied == Uint32(0 - 1, 0 - 1)
userDecrypt(handle, contract, user) ==
    IF /\ handle \in DOMAIN ciphertexts
       /\ <<handle, user>> \in acl
       /\ <<handle, contract>> \in acl
    THEN ciphertexts[handle]
    ELSE Denied

\* encrypt(): the proof issued with the k-th input binds its handle to the
\* user and the contract the input was created for
encrypt(k) ==
    [handle |-> k, userAddress |-> EncryptedInputs[k].user,
     contractAddress |-> EncryptedInputs[k].contract]

\* no call is under way: calls are made one at a time, each awaited by its
\* caller before the next is sent
Idle == [fn |-> "idle"]

(* -------------------------------- Init -------------------------------- *)

\* the chain right after the contract's deployment
Deployed ==
    /\ _encryptedMonthlyTotals = [u \in Users |-> ZeroHandle]
    /\ _expenseRecords = [u \in Users |-> <<>>]
    /\ _hasInitialized = [u \in Users |-> FALSE]
    /\ events = <<>>
    /\ ciphertexts = [h \in DOMAIN EncryptedInputs |-> EncryptedInputs[h].value]
    /\ inputProofs = {encrypt(h) : h \in DOMAIN EncryptedInputs}
    /\ acl = {}
    /\ fheAdds = {}
    /\ nextHandle = Len(EncryptedInputs) + 1
    /\ now = 1
    /\ added = [u \in Users |-> <<>>]
    /\ lastCall = Idle

\* the dialog's form at its first render and after a submission returned
EmptyForm == [amount |-> <<>>, category |-> "materials", error |-> NoMessage]
NoToast == [kind |-> "none"]

\* the state of the hook, of Index and of the dialog at the first render:
\* the useState defaults, nothing called yet
Mounted ==
    /\ encryptedTotal = Undefined
    /\ decryptedTotal = Undefined
    /\ expenseRecords = <<>>
    /\ isLoading = FALSE
    /\ message = NoMessage
    /\ flows = [f \in FlowIds |-> NoFlow]
    /\ mempool = <<>>
    /\ settled = Nothing
    /\ started = 0
    /\ showNewExpense = FALSE
    /\ dialog = EmptyForm
    /\ submitting = {}
    /\ toast = NoToast

\* the contract used from scripts and tests: a page that is open in no
\* wallet-connected browser
Init ==
    /\ Deployed
    /\ viteContractAddress = ThisContract
    /\ chainId = HardhatChainId
    /\ available = {}
    /\ Mounted

(* --------------------------------- chain ------------------------------- *)

\* the block that holds a transaction is the latest block or a new one,
\* whose timestamp is later (blocks holding no transaction of the contract
\* are counted with the next one that does)
BlockTimes == {now, now + 1}

(* ------------------------------ addExpense ----------------------------- *)

\* faulty variant: the total is assigned the decoded amount on every add
TotalAfterAdd_Overwrite(sender, amount) == amount

\* faulty variant: the first add leaves the total at the zero handle
TotalAfterAdd_FirstIgnored(sender, amount) ==
    IF ~_hasInitialized[sender] THEN _encryptedMonthlyTotals[sender] ELSE nextHandle

\* the handle stored as the sender's total: the decoded amount itself the
\* first time, the result handle of FHE.add afterwards
TotalAfterAdd(sender, amount) ==
    IF ~_hasInitialized[sender] THEN amount ELSE nextHandle

\* faulty variant: one storage slot for the total, not keyed by the sender
TotalsAfterAdd_Shared(sender, total) == [u \in Users |-> total]

\* _encryptedMonthlyTotals[msg.sender] = ...
TotalsAfterAdd(sender, total) ==
    [_encryptedMonthlyTotals EXCEPT ![sender] = total]

\* faulty variant: one initialized flag for everybody
InitializedAfterAdd_Global(sender) == [u \in Users |-> TRUE]

\* faulty variant: the flag is never set
InitializedAfterAdd_Forgotten(sender) == _hasInitialized

\* _hasInitialized[msg.sender] = true (a later add finds it set already)
InitializedAfterAdd(sender) ==
    [_hasInitialized EXCEPT ![sender] = TRUE]

\* faulty variant: the record is assigned to the list instead of pushed
PushRecord_Assign(records, timestamp, category) ==
    <<[timestamp |-> timestamp, category |-> category, exists |-> TRUE]>>

\* faulty variant: the record is put in front of the list
PushRecord_Front(records, timestamp, category) ==
    <<[timestamp |-> timestamp, category |-> category, exists |-> TRUE]>> \o records

\* _expenseRecords[msg.sender].push(ExpenseRecord({...}))
PushRecord(records, timestamp, category) ==
    Append(records, [timestamp |-> timestamp, category |-> category, exists |-> TRUE])

\* faulty variant: FHE.allow(total, msg.sender) is missing
GrantedByAdd_NoUser(total, sender) == {<<total, ThisContract>>}

\* FHE.allowThis(total); FHE.allow(total, msg.sender)
GrantedByAdd(total, sender) ==
    {<<total, ThisContract>>, <<total, sender>>}

\* faulty variant: the events carry the time of the block before
EmittedByAdd_StaleTime(sender, timestamp, category) ==
    << [name |-> "ExpenseAdded", user |-> sender, timestamp |-> now,
        category |-> category],
       [name |-> "MonthlyTotalUpdated", user |-> sender, timestamp |-> now] >>

\* emit ExpenseAdded(...); emit MonthlyTotalUpdated(...)
EmittedByAdd(sender, timestamp, category) ==
    << [name |-> "ExpenseAdded", user |-> sender, timestamp |-> timestamp,
        category |-> category],
       [name |-> "MonthlyTotalUpdated", user |-> sender, timestamp |-> timestamp] >>

\* the transaction runs to its end: the proof verifies, and the contract is
\* allowed to compute on both operands of FHE.add (fromExternal grants it
\* the decoded amount for the length of the transaction)
AddExpenseRuns(sender, encryptedAmount, inputProof) ==
    LET transient == {encryptedAmount}
    IN  /\ VerifyInput(encryptedAmount, inputProof, sender, ThisContract)
        /\ _hasInitialized[sender] =>
              /\ IsAllowed(_encryptedMonthlyTotals[sender], ThisContract, transient)
              /\ IsAllowed(encryptedAmount, ThisContract, transient)

\* what a transaction that runs to its end writes
addExpenseWrites(sender, encryptedAmount, inputProof, category, timestamp) ==
    LET first == ~_hasInitialized[sender]
        old == _encryptedMonthlyTotals[sender]
        total == TotalAfterAdd(sender, encryptedAmount)
    IN  /\ AddExpenseRuns(sender, encryptedAmount, inputProof)
        /\ _encryptedMonthlyTotals' = TotalsAfterAdd(sender, total)
        /\ _hasInitialized' = InitializedAfterAdd(sender)
        /\ IF first
           THEN UNCHANGED <<ciphertexts, fheAdds, nextHandle>>
           ELSE /\ ciphertexts' =
                      (nextHandle :> FheAddPlain(ciphertexts[old],
                                                 ciphertexts[encryptedAmount]))
                      @@ ciphertexts
                /\ fheAdds' = fheAdds \cup
                      {[lhs |-> old, rhs |-> encryptedAmount, result |-> nextHandle]}
                /\ nextHandle' = nextHandle + 1
        /\ _expenseRecords' =
               [_expenseRecords EXCEPT ![sender] = PushRecord(@, timestamp, category)]
        /\ acl' = acl \cup GrantedByAdd(total, sender)
        /\ events' = events \o EmittedByAdd(sender, timestamp, category)
        /\ added' = [added EXCEPT ![sender] =
               Append(@, [amount |-> ciphertexts[encryptedAmount],
                          category |-> category, timestamp |-> timestamp])]
        /\ now' = timestamp
        /\ UNCHANGED inputProofs

\* a transaction sent to the contract directly, that runs to its end
addExpense(sender, encryptedAmount, inputProof, category, timestamp) ==
    /\ lastCall = Idle
    /\ Len(added["alice"]) + Len(added["bob"]) < MaxAdds
    /\ addExpenseWrites(sender, encryptedAmount, inputProof, category, timestamp)
    /\ lastCall' = [fn |-> "addExpense", sender |-> sender,
                    handle |-> encryptedAmount, proof |-> inputProof,
                    category |-> category, ok |-> TRUE]
    /\ UNCHANGED clientVars

\* a transaction that reverts, whatever its category and its block: every
\* write of the transaction is undone
addExpenseReverts(sender, encryptedAmount, inputProof) ==
    /\ lastCall = Idle
    /\ Len(added["alice"]) + Len(added["bob"]) < MaxAdds
    /\ ~AddExpenseRuns(sender, encryptedAmount, inputProof)
    /\ lastCall' = [fn |-> "addExpense", sender |-> sender,
                    handle |-> encryptedAmount, proof |-> inputProof, ok |-> FALSE]
    /\ UNCHANGED <<chainVars, clientVars>>

(* ------------------------------ view calls ----------------------------- *)

getEncryptedMonthlyTotalCall(user) ==
    /\ lastCall = Idle
    /\ lastCall' = [fn |-> "getEncryptedMonthlyTotal", user |-> user, ok |-> TRUE,
                    ret |-> getEncryptedMonthlyTotal(user)]
    /\ UNCHANGED <<chainVars, clientVars>>

getExpenseRecordCountCall(user) ==
    /\ lastCall = Idle
    /\ lastCall' = [fn |-> "getExpenseRecordCount", user |-> user, ok |-> TRUE,
                    ret |-> getExpenseRecordCount(user)]
    /\ UNCHANGED <<chainVars, clientVars>>

hasInitializedCall(user) ==
    /\ lastCall = Idle
    /\ lastCall' = [fn |-> "hasInitialized", user |-> user, ok |-> TRUE,
                    ret |-> hasInitialized(user)]
    /\ UNCHANGED <<chainVars, clientVars>>

getExpenseRecordCall(user, index) ==
    /\ lastCall = Idle
    /\ lastCall' =
          [fn |-> "getExpenseRecord", user |-> user, index |-> index] @@
          (IF RecordIndexInBounds(user, index)
           THEN getExpenseRecord(user, index)
           ELSE [ok |-> FALSE, ret |-> "Record index out of bounds"])
    /\ UNCHANGED <<chainVars, clientVars>>

\* await tx.wait() / await of a view call: the caller takes the outcome
Return ==
    /\ lastCall # Idle
    /\ lastCall' = Idle
    /\ UNCHANGED <<chainVars, clientVars>>

(* --------------------------------- Next -------------------------------- *)

\* what callers pass as (encryptedAmount, inputProof): an input with the
\* proof issued for it (sent by its owner, or replayed by someone else), a
\* stored total (or bytes32(0)) with no proof, or a stored total under a
\* proof its owner was issued for another handle
Submissions ==
    {<<p.handle, p>> : p \in inputProofs}
    \cup {<<_encryptedMonthlyTotals[u], EmptyProof>> : u \in Users}
    \cup {<<_encryptedMonthlyTotals[p.userAddress], p>> : p \in inputProofs}

Next ==
    \/ \E s \in Users, sub \in Submissions, c \in Categories, t \in BlockTimes :
          addExpense(s, sub[1], sub[2], c, t)
    \/ \E s \in Users, sub \in Submissions : addExpenseReverts(s, sub[1], sub[2])
    \/ \E u \in Users : getEncryptedMonthlyTotalCall(u)
    \/ \E u \in Users : getExpenseRecordCountCall(u)
    \/ \E u \in Users : hasInitializedCall(u)
    \/ \E u \in Users, i \in 0 .. MaxAdds : getExpenseRecordCall(u, i)
    \/ Return

Spec == Init /\ [][Next]_vars

(* ====================================================================== *)
(*                     The client: Index and the hook                     *)
(* ====================================================================== *)

\* const CONTRACT_ADDRESS = import.meta.env.VITE_CONTRACT_ADDRESS || "0x5FbD..."
CONTRACT_ADDRESS ==
    IF viteContractAddress # NoAddress THEN viteContractAddress
    ELSE DefaultContractAddress

\* useExpenseLedger(CONTRACT_ADDRESS): the hook's argument
contractAddress == CONTRACT_ADDRESS

\* useAccount().isConnected: an account is connected
isConnected == "address" \in available

\* what Index renders
Page ==
    IF ~isConnected THEN "Connect Your Wallet"
    ELSE IF CONTRACT_ADDRESS = NoAddress THEN "Contract Not Configured"
    ELSE "Monthly Total"

\* the buttons of Index and of the dialog that call the hook are disabled
\* while isLoading.  What the page and the dialog check besides (a
\* connected wallet, a valid amount) the hook checks again: those inputs
\* are left free here.
ButtonsEnabled == ~isLoading

\* String.prototype.includes, piece by piece
Includes(text, pattern) ==
    \E i \in 1 .. Len(text) :
        /\ i + Len(pattern) - 1 <= Len(text)
        /\ SubSeq(text, i, i + Len(pattern) - 1) = pattern

\* a JavaScript number is NaN, a whole number kept as two halves (hi is
\* negative for a negative number and Half or more from 2^32 on), or a
\* number with decimals: the halves of its whole part and the digits after
\* the point, the last of them not "0"
NaN == [nan |-> TRUE]
isNaN(amount) == amount = NaN
Decimals(amount) == IF "frac" \in DOMAIN amount THEN amount.frac ELSE <<>>

\* amount <= 0 is false (as every comparison with NaN is)
Positive(amount) ==
    \/ isNaN(amount)
    \/ amount.hi > 0
    \/ amount.hi = 0 /\ (amount.lo > 0 \/ Decimals(amount) # <<>>)

DigitChars == <<"0", "1", "2", "3", "4", "5", "6", "7", "8", "9">>
IsDigit(c) == \E d \in DOMAIN DigitChars : DigitChars[d] = c
DigitOf(c) == (CHOOSE d \in DOMAIN DigitChars : DigitChars[d] = c) - 1

\* the digits a text starts with
LeadingDigits(text) ==
    LET n == CHOOSE n \in 0 .. Len(text) :
                /\ \A i \in 1 .. n : IsDigit(text[i])
                /\ n = Len(text) \/ ~IsDigit(text[n + 1])
    IN  SubSeq(text, 1, n)

\* the whole number a sequence of digits spells, after the digits of acc
RECURSIVE WholeOf(_, _)
WholeOf(digits, acc) ==
    IF digits = <<>> THEN acc
    ELSE LET lo == acc.lo * 10 + DigitOf(Head(digits))
         IN  WholeOf(Tail(digits), [hi |-> acc.hi * 10 + lo \div Half, lo |-> lo % Half])

RECURSIVE WithoutTrailingZeros(_)
WithoutTrailingZeros(digits) ==
    IF digits # <<>> /\ digits[Len(digits)] = "0"
    THEN WithoutTrailingZeros(SubSeq(digits, 1, Len(digits) - 1))
    ELSE digits

\* parseFloat of a text, given as its characters, that carries no sign and
\* no exponent: the number its longest numeric prefix spells, NaN if there
\* is none
parseFloat(text) ==
    LET whole == LeadingDigits(text)
        rest == SubSeq(text, Len(whole) + 1, Len(text))
        after == IF rest # <<>> /\ Head(rest) = "." THEN LeadingDigits(Tail(rest))
                 ELSE <<>>
        frac == WithoutTrailingZeros(after)
        halves == WholeOf(whole, [hi |-> 0, lo |-> 0])
    IN  IF whole = <<>> /\ after = <<>> THEN NaN
        ELSE IF frac = <<>> THEN halves
        ELSE [hi |-> halves.hi, lo |-> halves.lo, frac |-> frac]

\* ethers.hexlify / toLowerCase of a bytes32: "0x" and 64 hex digits; the
\* digits are kept as the number they spell
Hex(handle) == [prefix |-> "0x", digits |-> handle, length |-> 66]

\* the flow f moves on / a new call of an operation starts
Flow(f, r) == flows' = [flows EXCEPT ![f] = r]
Starts == started < MaxOps /\ started' = started + 1

(* ----------------------- Index: handleAddExpense ----------------------- *)

SuccessToast ==
    [kind |-> "success", title |-> "Expense added successfully!",
     description |-> <<"Your expense has been encrypted and stored on-chain.">>]

\* error.message || "Please try again."
ErrorToast(error) ==
    [kind |-> "error", title |-> "Failed to add expense",
     description |-> IF error.message # <<>> THEN error.message
                     ELSE <<"Please try again.">>]

\* what follows addExpense settling in a call made by the dialog:
\* handleAddExpense raises its toast and returns, also from its catch, so
\* handleSubmit goes on after its await: setAmount(""),
\* setCategory("materials"), onOpenChange(false)
handleSubmit_Returns(f, result, error) ==
    /\ toast' = IF result = "resolved" THEN SuccessToast ELSE ErrorToast(error)
    /\ dialog' = [dialog EXCEPT !.amount = <<>>, !.category = "materials"]
    /\ showNewExpense' = FALSE
    /\ submitting' = submitting \ {f}

\* the step of the call f of addExpense has been taken: if the call has
\* settled and the dialog awaits it, the dialog's handlers go on
AddExpense_Returns(f) ==
    IF f \in submitting /\ flows'[f].pc = "idle"
    THEN handleSubmit_Returns(f, settled'.result, settled'.error)
    ELSE UNCHANGED dialogVars

(* --------------------------- hook: addExpense -------------------------- *)

\* faulty variant: the signer is not checked
AddPrecondition_SignerUnchecked(amount) ==
    IF contractAddress = NoAddress
    THEN Thrown("Contract address not configured. Please set VITE_CONTRACT_ADDRESS in .env.local")
    ELSE IF "fhevmInstance" \notin available
    THEN Thrown("FHEVM instance not initialized. Please wait for initialization.")
    ELSE IF "address" \notin available
    THEN Thrown("Wallet address not available. Please connect your wallet.")
    ELSE IF "ethersProvider" \notin available
    THEN Thrown("Ethers provider not available.")
    ELSE IF ~Positive(amount)
    THEN Thrown("Expense amount must be greater than 0")
    ELSE NoError

\* the checks before the try block, in the order of the code: the error
\* the call is rejected with, NoError when all pass
AddPrecondition(amount) ==
    IF contractAddress = NoAddress
    THEN Thrown("Contract address not configured. Please set VITE_CONTRACT_ADDRESS in .env.local")
    ELSE IF "ethersSigner" \notin available
    THEN Thrown("Wallet signer not available. Please ensure your wallet is connected.")
    ELSE IF "fhevmInstance" \notin available
    THEN Thrown("FHEVM instance not initialized. Please wait for initialization.")
    ELSE IF "address" \notin available
    THEN Thrown("Wallet address not available. Please connect your wallet.")
    ELSE IF "ethersProvider" \notin available
    THEN Thrown("Ethers provider not available.")
    ELSE IF ~Positive(amount)
    THEN Thrown("Expense amount must be greater than 0")
    ELSE NoError

\* a whole number in 0 .. 2^32 - 1, what add32 is meant for
IsUint32(amount) ==
    /\ ~isNaN(amount)
    /\ Decimals(amount) = <<>>
    /\ amount.hi \in 0 .. Half - 1

\* encryptedInput.add32(amount): the library takes the number, or throws;
\* it takes every number add32 is meant for
Add32Error == Thrown("The value exceeds the limit for 32bits integer (4294967295).")
Add32Outcomes(amount) ==
    IF IsUint32(amount) THEN {"taken"} ELSE {"taken", "thrown"}

\* the 32-bit value made of a number that was taken: decimals are cut off,
\* the bits from 2^32 on are dropped, NaN gives 0
ToUint32(amount) ==
    IF isNaN(amount) THEN Uint32(0, 0) ELSE Uint32(amount.hi % Half, amount.lo)

\* createEncryptedInput(contractAddress, address).add32(amount).encrypt():
\* the inputs created for this contract, this account and this value
EncryptedInputsOf(value) ==
    {k \in DOMAIN EncryptedInputs :
        /\ EncryptedInputs[k].user = address
        /\ EncryptedInputs[k].contract = contractAddress
        /\ EncryptedInputs[k].value = value}

\* error.reason || error.message
ErrorMessage(error) == IF error.reason # <<>> THEN error.reason ELSE error.message

\* catch (error) { setMessage(`Error: ...`); throw error }
\* finally { setIsLoading(false) }
AddRejects(f, error) ==
    /\ message' = <<"Error: ">> \o ErrorMessage(error)
    /\ isLoading' = FALSE
    /\ Flow(f, NoFlow)
    /\ settled' = [op |-> "addExpense", flow |-> f, result |-> "rejected",
                   error |-> error, phase |-> "write"]

\* the end of the try block, then finally { setIsLoading(false) }; failure
\* is what the inner catch has caught, if anything
AddResolves(f, text, failure) ==
    /\ message' = text
    /\ isLoading' = FALSE
    /\ Flow(f, NoFlow)
    /\ settled' = [op |-> "addExpense", flow |-> f, result |-> "resolved",
                   error |-> failure, phase |-> "refresh"]

\* faulty variant: a running add drops the decrypted total
WritePhaseKeeps_ClearsDecrypted ==
    /\ decryptedTotal' = Undefined
    /\ UNCHANGED <<encryptedTotal, expenseRecords>>

\* from encrypt() to the receipt, addExpense calls none of
\* setEncryptedTotal, setDecryptedTotal and setExpenseRecords
WritePhaseKeeps == UNCHANGED localVars

\* addExpense(amount, category) is called: a check fails and the call is
\* rejected at once; or add32 throws, which the catch reports and throws
\* on; or the call runs up to its first await (encrypt)
addExpenseCalled(f, amount, category) ==
    /\ flows[f].pc = "idle"
    /\ f = "add2" => flows["add1"].pc # "idle"
    /\ Starts
    /\ LET error == AddPrecondition(amount)
       IN  IF error # NoError
           THEN /\ message' = error.message
                /\ settled' = [op |-> "addExpense", flow |-> f, result |-> "rejected",
                               error |-> error, phase |-> "precondition"]
                /\ UNCHANGED <<isLoading, flows>>
           ELSE \E taken \in Add32Outcomes(amount) :
                IF taken = "thrown"
                THEN /\ message' = <<"Error: ">> \o ErrorMessage(Add32Error)
                     /\ isLoading' = FALSE
                     /\ settled' = [op |-> "addExpense", flow |-> f,
                                    result |-> "rejected", error |-> Add32Error,
                                    phase |-> "write"]
                     /\ UNCHANGED flows
                ELSE /\ isLoading' = TRUE
                     /\ message' = <<"Encrypting expense amount...">>
                     /\ Flow(f, [pc |-> "encrypt", amount |-> amount,
                                 category |-> category])
                     /\ settled' = Nothing
    /\ UNCHANGED <<chainVars, lastCall, configVars, localVars, mempool>>

\* the hook's addExpense called with any number, not from the dialog
AddExpense_Start(f, amount, category) ==
    /\ ButtonsEnabled
    /\ addExpenseCalled(f, amount, category)
    /\ UNCHANGED dialogVars

\* what encrypt() settles with: the input and its proof, nothing usable, or
\* an error
EncryptOutcomes(amount) ==
    { [ok |-> TRUE, handle |-> k, inputProof |-> encrypt(k)] :
          k \in EncryptedInputsOf(ToUint32(amount)) }
    \cup { [ok |-> TRUE, handle |-> ZeroHandle, inputProof |-> EmptyProof],
           [ok |-> FALSE, error |-> FetchError] }

\* await encryptedInput.encrypt() settles; getCode is called
AddExpense_Encrypted(f) ==
    /\ flows[f].pc = "encrypt"
    /\ \E outcome \in EncryptOutcomes(flows[f].amount) :
       IF outcome.ok
       THEN /\ message' = <<"Submitting to blockchain...">>
            /\ Flow(f, [pc |-> "getCode", category |-> flows[f].category,
                        handle |-> outcome.handle, inputProof |-> outcome.inputProof])
            /\ UNCHANGED <<isLoading, settled>>
       ELSE /\ AddRejects(f, outcome.error)
    /\ WritePhaseKeeps
    /\ UNCHANGED <<chainVars, lastCall, configVars, mempool, started>>
    /\ AddExpense_Returns(f)

\* the fallback address holds the contract on a local node only
CodeAtContractAddress ==
    IF viteContractAddress = NoAddress /\ chainId # HardhatChainId
    THEN {"0x"}
    ELSE {"0x6080", "0x"}

\* what getCode settles with: the contract's code, no code (nothing is
\* deployed at the address on the chain the provider is on), or an error
GetCodeOutcomes ==
    {[ok |-> TRUE, code |-> c] : c \in CodeAtContractAddress}
    \cup {[ok |-> FALSE, error |-> FetchError]}

\* faulty variant: the code is not looked at
NoCode_Unchecked(code) == FALSE

\* contractCode === "0x" || contractCode.length <= 2
NoCode(code) == code = "0x"

NotDeployedText ==
    <<"Contract not deployed at ", contractAddress, ". Please deploy the contract first.">>
NotDeployedError == Error(NotDeployedText, <<>>, "none", "client")

\* await ethersProvider.getCode() settles; the transaction is handed to the
\* wallet
AddExpense_CodeChecked(f) ==
    /\ flows[f].pc = "getCode"
    /\ \E outcome \in GetCodeOutcomes :
       IF ~outcome.ok
       THEN AddRejects(f, outcome.error)
       ELSE IF NoCode(outcome.code)
       THEN /\ AddRejects(f, NotDeployedError)
       ELSE IF flows[f].handle = ZeroHandle \/ flows[f].inputProof = EmptyProof
       THEN /\ AddRejects(f, Thrown("Encryption failed - missing handle or proof"))
       ELSE /\ Flow(f, [flows[f] EXCEPT !.pc = "send"])
            /\ UNCHANGED <<isLoading, message, settled>>
    /\ WritePhaseKeeps
    /\ UNCHANGED <<chainVars, lastCall, configVars, mempool, started>>
    /\ AddExpense_Returns(f)

\* the plaintext under a user's total, 0 before the first add
PlainTotal(user) ==
    IF hasInitialized(user) THEN ciphertexts[getEncryptedMonthlyTotal(user)]
    ELSE Uint32(0, 0)

\* for a transaction sent while exactly one earlier transaction of the
\* account is still pending, the ledger both will be applied to
LedgerBefore ==
    IF Cardinality({n \in DOMAIN mempool : mempool[n].status = "pending"}) = 1
    THEN [total |-> PlainTotal(address), count |-> getExpenseRecordCount(address)]
    ELSE Nothing

\* await contract.addExpense(handle, proof, category) settles: the wallet
\* has signed and broadcast the transaction, or the request failed
AddExpense_Sent(f) ==
    /\ flows[f].pc = "send"
    /\ \E outcome \in {[ok |-> TRUE]} \cup {[ok |-> FALSE, error |-> e] : e \in WalletErrors} :
       IF outcome.ok
       THEN /\ mempool' = Append(mempool,
                   [sender |-> address, handle |-> flows[f].handle,
                    inputProof |-> flows[f].inputProof,
                    category |-> flows[f].category, status |-> "pending",
                    before |-> LedgerBefore])
            /\ Flow(f, [pc |-> "wait", tx |-> Len(mempool) + 1])
            /\ UNCHANGED <<isLoading, message, settled>>
       ELSE /\ AddRejects(f, outcome.error)
            /\ UNCHANGED mempool
    /\ WritePhaseKeeps
    /\ UNCHANGED <<chainVars, lastCall, configVars, started>>
    /\ AddExpense_Returns(f)

\* a view call of loadEncryptedTotal that is in flight while a block is
\* mined: the node may have answered it from the state before the block,
\* and the answer reaches the client later
Answered(f) == "answer" \in DOMAIN flows[f]
AnsweredBeforeBlock ==
    IF flows["load"].pc = "hasInit" /\ ~Answered("load")
    THEN {flows, [flows EXCEPT !["load"] =
                     [pc |-> "hasInit", answer |-> hasInitialized(address)]]}
    ELSE IF flows["load"].pc = "total" /\ ~Answered("load")
    THEN {flows, [flows EXCEPT !["load"] =
                     [pc |-> "total", answer |-> getEncryptedMonthlyTotal(address)]]}
    ELSE {flows}

\* what the call of the flow f returns: the answer the node gave earlier,
\* or the value read now
ReadBy(f, value) == IF Answered(f) THEN flows[f].answer ELSE value

\* the block that holds a transaction of the client: a new one
ClientBlockTimes == {now + 1}

\* the chain mines the oldest pending transaction of the account (nonces
\* are consecutive): it runs to its end or reverts
MineTx(timestamp) ==
    \E n \in DOMAIN mempool :
        /\ mempool[n].status = "pending"
        /\ \A m \in 1 .. n - 1 : mempool[m].status # "pending"
        /\ IF AddExpenseRuns(mempool[n].sender, mempool[n].handle, mempool[n].inputProof)
           THEN /\ addExpenseWrites(mempool[n].sender, mempool[n].handle,
                                    mempool[n].inputProof, mempool[n].category, timestamp)
                /\ mempool' = [mempool EXCEPT ![n].status = "confirmed"]
           ELSE /\ mempool' = [mempool EXCEPT ![n].status = "reverted"]
                /\ UNCHANGED chainVars
        /\ flows' \in AnsweredBeforeBlock
        /\ UNCHANGED <<lastCall, configVars, localVars, isLoading, message,
                       settled, started>>
    /\ UNCHANGED dialogVars

\* the receipt of a mined transaction that reverted
RevertedError ==
    Error(<<"transaction execution reverted">>, <<>>, "CALL_EXCEPTION", "chain")

\* await tx.wait() settles: with the receipt once the transaction is mined,
\* or with an error
AddExpense_Confirmed(f) ==
    /\ flows[f].pc = "wait"
    /\ \E outcome \in {[ok |-> TRUE], [ok |-> FALSE, error |-> FetchError]} :
       IF ~outcome.ok
       THEN AddRejects(f, outcome.error)
       ELSE /\ mempool[flows[f].tx].status # "pending"
            /\ IF mempool[flows[f].tx].status = "reverted"
               THEN AddRejects(f, RevertedError)
               ELSE /\ message' = <<"Expense added successfully. Refreshing data...">>
                    /\ Flow(f, [pc |-> "sleep"])
                    /\ UNCHANGED <<isLoading, settled>>
    /\ WritePhaseKeeps
    /\ UNCHANGED <<chainVars, lastCall, configVars, mempool, started>>
    /\ AddExpense_Returns(f)

\* the 2000 ms timer fires; the refresh begins with getCode
AddExpense_Slept(f) ==
    /\ flows[f].pc = "sleep"
    /\ IF contractAddress # NoAddress /\ {"ethersProvider", "address"} \subseteq available
       THEN Flow(f, [pc |-> "refreshCode"])
            /\ UNCHANGED <<isLoading, message, settled>>
       ELSE AddResolves(f, message, NoError)
    /\ UNCHANGED <<chainVars, lastCall, configVars, localVars, mempool, started>>
    /\ AddExpense_Returns(f)

\* what a view call of the contract settles with: the value read, or an
\* error
ReadOutcomes(value) ==
    {[ok |-> TRUE, ret |-> value], [ok |-> FALSE, error |-> FetchError]}

RefreshFailedText ==
    <<"Expense added, but failed to refresh data. Please refresh manually.">>

\* the refresh: await getCode() settles; hasInitialized is called
AddExpense_RefreshCode(f) ==
    /\ flows[f].pc = "refreshCode"
    /\ \E outcome \in GetCodeOutcomes :
       IF ~outcome.ok
       THEN AddResolves(f, RefreshFailedText, outcome.error)
       ELSE IF NoCode(outcome.code)
       THEN AddResolves(f, message, NoError)
       ELSE /\ Flow(f, [pc |-> "refreshInit"])
            /\ UNCHANGED <<isLoading, message, settled>>
    /\ UNCHANGED <<chainVars, lastCall, configVars, localVars, mempool, started>>
    /\ AddExpense_Returns(f)

\* the refresh: await hasInitialized(address) settles;
\* getEncryptedMonthlyTotal is called
AddExpense_RefreshInit(f) ==
    /\ flows[f].pc = "refreshInit"
    /\ \E outcome \in ReadOutcomes(hasInitialized(address)) :
       IF ~outcome.ok
       THEN AddResolves(f, RefreshFailedText, outcome.error)
       ELSE IF ~outcome.ret
       THEN /\ AddResolves(f, <<"Expense added, but initialization check failed. Please try refreshing.">>,
                           NoError)
       ELSE /\ Flow(f, [pc |-> "refreshTotal"])
            /\ UNCHANGED <<isLoading, message, settled>>
    /\ UNCHANGED <<chainVars, lastCall, configVars, localVars, mempool, started>>
    /\ AddExpense_Returns(f)

\* loadExpenseRecords() is called by the flow f: the guard returns at once,
\* or getExpenseRecordCount is called
loadExpenseRecords_Start(f) ==
    IF contractAddress = NoAddress \/ ~({"ethersProvider", "address"} \subseteq available)
    THEN /\ Flow(f, [pc |-> "afterRecords"])
    ELSE /\ Flow(f, [pc |-> "recordCount"])

\* the refresh: await getEncryptedMonthlyTotal(address) settles; the handle
\* is stored and loadExpenseRecords is called
AddExpense_RefreshTotal(f) ==
    /\ flows[f].pc = "refreshTotal"
    /\ \E outcome \in ReadOutcomes(getEncryptedMonthlyTotal(address)) :
       IF ~outcome.ok
       THEN /\ AddResolves(f, RefreshFailedText, outcome.error)
            /\ UNCHANGED encryptedTotal
       ELSE /\ encryptedTotal' = Hex(outcome.ret)
            /\ loadExpenseRecords_Start(f)
            /\ UNCHANGED <<isLoading, message, settled>>
    /\ UNCHANGED <<chainVars, lastCall, configVars, decryptedTotal, expenseRecords,
                   mempool, started>>
    /\ AddExpense_Returns(f)

\* loadExpenseRecords ends: it resolves, whatever happened inside
\* (catch (error) { console.error(...) })
RecordsSettle(f, failure) ==
    /\ Flow(f, [pc |-> "afterRecords"])
    /\ settled' = [op |-> "loadExpenseRecords", flow |-> f, result |-> "resolved",
                   error |-> failure, phase |-> "read"]

\* await getExpenseRecordCount(address) settles; the loop begins
loadExpenseRecords_Count(f) ==
    /\ flows[f].pc = "recordCount"
    /\ \E outcome \in ReadOutcomes(getExpenseRecordCount(address)) :
       IF ~outcome.ok
       THEN RecordsSettle(f, outcome.error) /\ UNCHANGED expenseRecords
       ELSE IF outcome.ret = 0
       THEN RecordsSettle(f, NoError) /\ expenseRecords' = <<>>
       ELSE /\ Flow(f, [pc |-> "recordItem", count |-> outcome.ret, i |-> 0,
                        records |-> <<>>])
            /\ UNCHANGED <<expenseRecords, settled>>
    /\ UNCHANGED <<chainVars, lastCall, configVars, encryptedTotal, decryptedTotal,
                   isLoading, message, mempool, started>>
    /\ AddExpense_Returns(f)

\* faulty variant: the newest record, whatever the index
getExpenseRecordRead_Newest(user, index) ==
    IF RecordIndexInBounds(user, index)
    THEN getExpenseRecord(user, getExpenseRecordCount(user) - 1)
    ELSE [ok |-> FALSE, ret |-> "Record index out of bounds"]

\* the contract's getExpenseRecord as the client calls it: the require
\* reverts the call
getExpenseRecordRead(user, index) ==
    IF RecordIndexInBounds(user, index) THEN getExpenseRecord(user, index)
    ELSE [ok |-> FALSE, ret |-> "Record index out of bounds"]

\* await getExpenseRecord(address, i) settles: the record is pushed and the
\* loop goes on, or ends with setExpenseRecords(records)
loadExpenseRecords_Item(f) ==
    LET i == flows[f].i
        read == getExpenseRecordRead(address, i)
    IN  /\ flows[f].pc = "recordItem"
        /\ \E outcome \in (IF read.ok THEN {read}
                        ELSE {[ok |-> FALSE,
                               error |-> Error(<<"execution reverted: ", read.ret>>,
                                               <<read.ret>>, "CALL_EXCEPTION", "chain")]})
                       \cup {[ok |-> FALSE, error |-> FetchError]} :
           IF ~outcome.ok
           THEN RecordsSettle(f, outcome.error) /\ UNCHANGED expenseRecords
           ELSE LET records == Append(flows[f].records,
                                      [timestamp |-> outcome.ret[1],
                                       category |-> outcome.ret[2], index |-> i])
                IN  IF i + 1 < flows[f].count
                    THEN /\ Flow(f, [flows[f] EXCEPT !.i = i + 1, !.records = records])
                         /\ UNCHANGED <<expenseRecords, settled>>
                    ELSE /\ expenseRecords' = records
                         /\ RecordsSettle(f, NoError)
        /\ UNCHANGED <<chainVars, lastCall, configVars, encryptedTotal, decryptedTotal,
                       isLoading, message, mempool, started>>
    /\ AddExpense_Returns(f)

\* await loadExpenseRecords() has settled: the success message, then
\* finally
AddExpense_Refreshed(f) ==
    /\ f \in AddFlowIds
    /\ flows[f].pc = "afterRecords"
    /\ AddResolves(f, <<"Expense added successfully! Wait a moment, then you can decrypt your total.">>,
                   NoError)
    /\ UNCHANGED <<chainVars, lastCall, configVars, localVars, mempool, started>>
    /\ AddExpense_Returns(f)

(* ----------------------- hook: loadEncryptedTotal ---------------------- *)

HardhatDownText ==
    <<"Cannot connect to Hardhat node. Please ensure 'npx hardhat node' is running on http://localhost:8545">>

\* the catch block's choice of errorMessage
LoadErrorMessage(error) ==
    IF error.code \in {"UNKNOWN_ERROR", "-32603"}
    THEN IF chainId = HardhatChainId THEN HardhatDownText
         ELSE <<"Network error: ">> \o error.message
    ELSE IF Includes(error.message, <<"Failed to fetch">>)
    THEN IF chainId = HardhatChainId THEN HardhatDownText
         ELSE <<"Network connection failed. Please check your internet connection and try again.">>
    ELSE error.message

\* faulty variant: the return leaves the flag as it is
LoadReturns_FlagKept(failure) ==
    /\ UNCHANGED isLoading
    /\ Flow("load", NoFlow)
    /\ settled' = [op |-> "loadEncryptedTotal", flow |-> "load", result |-> "resolved",
                   error |-> failure, phase |-> "read"]

\* return inside the try block, or its end; finally { setIsLoading(false) }
LoadReturns(failure) ==
    /\ isLoading' = FALSE
    /\ Flow("load", NoFlow)
    /\ settled' = [op |-> "loadEncryptedTotal", flow |-> "load", result |-> "resolved",
                   error |-> failure, phase |-> "read"]

\* catch (error) { setMessage(`Error loading total: ...`) }
\* finally { setIsLoading(false) }
LoadCatches(error) ==
    /\ message' = <<"Error loading total: ">> \o LoadErrorMessage(error)
    /\ LoadReturns(error)

\* loadEncryptedTotal() is called, by the Refresh button or by the effect
\* that runs when the contract address, the provider or the account
\* changes: the guard returns at once, or the call runs up to its first
\* await (getBlockNumber)
loadEncryptedTotal_Start(trigger) ==
    /\ trigger = "button" => ButtonsEnabled
    /\ trigger = "effect" =>
          contractAddress # NoAddress /\ {"ethersProvider", "address"} \subseteq available
    /\ flows["load"].pc = "idle"
    /\ Starts
    /\ IF contractAddress = NoAddress \/ ~({"ethersProvider", "address"} \subseteq available)
       THEN /\ settled' = [op |-> "loadEncryptedTotal", flow |-> "load",
                           result |-> "resolved", error |-> NoError, phase |-> "guard"]
            /\ UNCHANGED <<isLoading, flows>>
       ELSE /\ isLoading' = TRUE
            /\ Flow("load", [pc |-> "blockNumber"])
            /\ settled' = Nothing
    /\ UNCHANGED <<chainVars, lastCall, configVars, localVars, message, mempool>>
    /\ UNCHANGED dialogVars

\* await ethersProvider.getBlockNumber() settles; getCode is called
loadEncryptedTotal_BlockNumber ==
    /\ flows["load"].pc = "blockNumber"
    /\ \E outcome \in {[ok |-> TRUE]} \cup {[ok |-> FALSE, error |-> e] : e \in RpcErrors} :
       IF outcome.ok
       THEN /\ Flow("load", [pc |-> "getCode"])
            /\ UNCHANGED <<isLoading, message, settled>>
       ELSE IF chainId = HardhatChainId
       THEN /\ message' = HardhatDownText
            /\ LoadReturns(outcome.error)
       ELSE LoadCatches(outcome.error)
    /\ UNCHANGED <<chainVars, lastCall, configVars, localVars, mempool, started>>
    /\ UNCHANGED dialogVars

\* await ethersProvider.getCode() settles; hasInitialized is called
loadEncryptedTotal_Code ==
    /\ flows["load"].pc = "getCode"
    /\ \E outcome \in GetCodeOutcomes :
       IF ~outcome.ok
       THEN LoadCatches(outcome.error) /\ UNCHANGED encryptedTotal
       ELSE IF NoCode(outcome.code)
       THEN /\ message' = NotDeployedText
            /\ encryptedTotal' = Undefined
            /\ LoadReturns(NoError)
       ELSE /\ Flow("load", [pc |-> "hasInit"])
            /\ UNCHANGED <<isLoading, message, settled, encryptedTotal>>
    /\ UNCHANGED <<chainVars, lastCall, configVars, decryptedTotal, expenseRecords,
                   mempool, started>>
    /\ UNCHANGED dialogVars

\* await hasInitialized(address) settles; getEncryptedMonthlyTotal is called
loadEncryptedTotal_HasInit ==
    /\ flows["load"].pc = "hasInit"
    /\ \E outcome \in ReadOutcomes(ReadBy("load", hasInitialized(address))) :
       IF ~outcome.ok
       THEN LoadCatches(outcome.error) /\ UNCHANGED <<encryptedTotal, decryptedTotal>>
       ELSE IF ~outcome.ret
       THEN /\ encryptedTotal' = Undefined
            /\ decryptedTotal' = Undefined
            /\ LoadReturns(NoError)
            /\ UNCHANGED message
       ELSE /\ Flow("load", [pc |-> "total"])
            /\ UNCHANGED <<isLoading, message, settled, encryptedTotal, decryptedTotal>>
    /\ UNCHANGED <<chainVars, lastCall, configVars, expenseRecords, mempool, started>>
    /\ UNCHANGED dialogVars

\* await getEncryptedMonthlyTotal(address) settles; the handle is stored and
\* loadExpenseRecords is called
loadEncryptedTotal_Total ==
    /\ flows["load"].pc = "total"
    /\ \E outcome \in ReadOutcomes(ReadBy("load", getEncryptedMonthlyTotal(address))) :
       IF ~outcome.ok
       THEN LoadCatches(outcome.error) /\ UNCHANGED encryptedTotal
       ELSE /\ encryptedTotal' = Hex(outcome.ret)
            /\ loadExpenseRecords_Start("load")
            /\ UNCHANGED <<isLoading, message, settled>>
    /\ UNCHANGED <<chainVars, lastCall, configVars, decryptedTotal, expenseRecords,
                   mempool, started>>
    /\ UNCHANGED dialogVars

\* await loadExpenseRecords() has settled: the end of the try block, then
\* finally
loadEncryptedTotal_Loaded ==
    /\ flows["load"].pc = "afterRecords"
    /\ LoadReturns(NoError)
    /\ UNCHANGED <<chainVars, lastCall, configVars, localVars, message, mempool, started>>
    /\ UNCHANGED dialogVars

(* -------------------------- hook: decryptTotal ------------------------- *)

NotPermittedText ==
    <<"Decryption failed: You don't have permission to decrypt this handle. Please try adding an expense again or wait a few seconds.">>

\* the catch block's choice of message
DecryptErrorText(error) ==
    IF \/ Includes(error.message, <<"not", "authorized">>)
       \/ Includes(error.message, <<"authorized">>)
    THEN NotPermittedText
    ELSE <<"Error decrypting: ">> \o error.message

\* catch (error) { setMessage(...); throw error }
DecryptCatches(error) ==
    /\ message' = DecryptErrorText(error)
    /\ Flow("decrypt", NoFlow)
    /\ settled' = [op |-> "decryptTotal", flow |-> "decrypt", result |-> "rejected",
                   error |-> error, phase |-> "read"]

MissingRequirementsText == <<"Missing requirements for decryption">>

\* decryptTotal() is called: the guard returns at once, or the call runs up
\* to its first await (hasInitialized)
decryptTotal_Start ==
    /\ ButtonsEnabled
    /\ flows["decrypt"].pc = "idle"
    /\ Starts
    /\ IF contractAddress = NoAddress \/ available # Requirements
       THEN /\ message' = MissingRequirementsText
            /\ settled' = [op |-> "decryptTotal", flow |-> "decrypt",
                           result |-> "resolved",
                           error |-> Error(MissingRequirementsText, <<>>, "none", "client"),
                           phase |-> "guard"]
            /\ UNCHANGED flows
       ELSE /\ message' = <<"Checking permissions and fetching latest encrypted total...">>
            /\ Flow("decrypt", [pc |-> "hasInit"])
            /\ settled' = Nothing
    /\ UNCHANGED <<chainVars, lastCall, configVars, localVars, isLoading, mempool>>
    /\ UNCHANGED dialogVars

\* faulty variant: the flag is not looked at
NotInitializedError_Unchecked(hasInit) == NoError

\* if (!hasInit) throw new Error(...)
NotInitializedError(hasInit) ==
    IF ~hasInit
    THEN Thrown("You haven't added any expenses yet. Please add expenses first before decrypting.")
    ELSE NoError

\* await hasInitialized(address) settles; getEncryptedMonthlyTotal is called
decryptTotal_HasInit ==
    /\ flows["decrypt"].pc = "hasInit"
    /\ \E outcome \in ReadOutcomes(hasInitialized(address)) :
       IF ~outcome.ok
       THEN DecryptCatches(outcome.error)
       ELSE IF NotInitializedError(outcome.ret) # NoError
       THEN DecryptCatches(NotInitializedError(outcome.ret))
       ELSE /\ Flow("decrypt", [pc |-> "total"])
            /\ UNCHANGED <<message, settled>>
    /\ UNCHANGED <<chainVars, lastCall, configVars, localVars, isLoading, mempool, started>>
    /\ UNCHANGED dialogVars

\* !handle || handle === "0x" || handle.length !== 66
Malformed(handle) == handle.length # 66

\* await getEncryptedMonthlyTotal(address) settles; the handle is checked
\* and stored, the key pair and the EIP-712 message are made, and the
\* wallet is asked to sign
decryptTotal_Total ==
    /\ flows["decrypt"].pc = "total"
    /\ \E outcome \in ReadOutcomes(getEncryptedMonthlyTotal(address)) :
       IF ~outcome.ok
       THEN DecryptCatches(outcome.error) /\ UNCHANGED encryptedTotal
       ELSE IF Malformed(Hex(outcome.ret))
       THEN /\ DecryptCatches(Error(<<"Invalid handle format: ", ToString(outcome.ret),
                                     ". Expected 66 characters (0x + 64 hex chars)">>,
                                   <<>>, "none", "client"))
            /\ UNCHANGED encryptedTotal
       ELSE /\ encryptedTotal' = Hex(outcome.ret)
            /\ message' = <<"Decrypting monthly total...">>
            /\ Flow("decrypt", [pc |-> "sign", handle |-> Hex(outcome.ret)])
            /\ UNCHANGED settled
    /\ UNCHANGED <<chainVars, lastCall, configVars, decryptedTotal, expenseRecords,
                   isLoading, mempool, started>>
    /\ UNCHANGED dialogVars

\* await ethersSigner.signTypedData() settles; the decryption service is
\* called
decryptTotal_Signed ==
    /\ flows["decrypt"].pc = "sign"
    /\ \E outcome \in {[ok |-> TRUE]} \cup {[ok |-> FALSE, error |-> e] : e \in WalletErrors} :
       IF ~outcome.ok
       THEN DecryptCatches(outcome.error)
       ELSE /\ Flow("decrypt", [flows["decrypt"] EXCEPT !.pc = "decrypt"])
            /\ UNCHANGED <<message, settled>>
    /\ UNCHANGED <<chainVars, lastCall, configVars, localVars, isLoading, mempool, started>>
    /\ UNCHANGED dialogVars

\* what fhevmInstance.userDecrypt settles with: the plaintexts by handle
\* (one entry, under the handle asked for or under another key); a refusal
\* when the user or the contract holds no grant over the handle, or none
\* the service has seen yet; or an error
UserDecryptOutcomes(handle) ==
    (IF userDecrypt(handle.digits, contractAddress, address) # Denied
     THEN {[ok |-> TRUE, handle |-> h,
            value |-> userDecrypt(handle.digits, contractAddress, address)] :
               h \in {handle, Hex(ZeroHandle)}}
     ELSE {})
    \cup {[ok |-> FALSE, error |-> NotAuthorizedError],
          [ok |-> FALSE, error |-> FetchError]}

\* faulty variant: the first entry of the mapping, whatever its key
Decrypted_AnyEntry(result, handle) == result.value

\* Number(decryptedResult[handle] || 0)
Decrypted(result, handle) ==
    IF result.handle = handle THEN result.value ELSE Uint32(0, 0)

\* await userDecrypt() settles: Number(decryptedResult[handle] || 0) is
\* stored
decryptTotal_Decrypted ==
    /\ flows["decrypt"].pc = "decrypt"
    /\ \E outcome \in UserDecryptOutcomes(flows["decrypt"].handle) :
       IF ~outcome.ok
       THEN DecryptCatches(outcome.error) /\ UNCHANGED decryptedTotal
       ELSE LET decrypted == Decrypted(outcome, flows["decrypt"].handle)
            IN  /\ decryptedTotal' = decrypted
                /\ message' = <<"Decrypted monthly total: ", ToString(decrypted)>>
                /\ Flow("decrypt", NoFlow)
                /\ settled' = [op |-> "decryptTotal", flow |-> "decrypt",
                               result |-> "resolved", error |-> NoError,
                               phase |-> "read",
                               returned |-> [handle |-> outcome.handle,
                                             value |-> outcome.value]]
    /\ UNCHANGED <<chainVars, lastCall, configVars, encryptedTotal, expenseRecords,
                   isLoading, mempool, started>>
    /\ UNCHANGED dialogVars

(* ------------------------------ NextClient ----------------------------- *)

\* the page is opened: any environment, chain and wallet state
InitClient ==
    /\ Deployed
    /\ viteContractAddress \in {NoAddress, ThisContract}
    /\ chainId \in {HardhatChainId, SepoliaChainId}
    /\ available \in SUBSET Requirements
    /\ Mounted

NextClient ==
    \/ \E f \in AddFlowIds, a \in Amounts, c \in OfferedCategories : AddExpense_Start(f, a, c)
    \/ \E f \in AddFlowIds : AddExpense_Encrypted(f)
    \/ \E f \in AddFlowIds : AddExpense_CodeChecked(f)
    \/ \E f \in AddFlowIds : AddExpense_Sent(f)
    \/ \E t \in ClientBlockTimes : MineTx(t)
    \/ \E f \in AddFlowIds : AddExpense_Confirmed(f)
    \/ \E f \in AddFlowIds : AddExpense_Slept(f)
    \/ \E f \in AddFlowIds : AddExpense_RefreshCode(f)
    \/ \E f \in AddFlowIds : AddExpense_RefreshInit(f)
    \/ \E f \in AddFlowIds : AddExpense_RefreshTotal(f)
    \/ \E f \in AddFlowIds : AddExpense_Refreshed(f)
    \/ \E f \in AddFlowIds \cup {"load"} : loadExpenseRecords_Count(f)
    \/ \E f \in AddFlowIds \cup {"load"} : loadExpenseRecords_Item(f)
    \/ \E trigger \in {"button", "effect"} : loadEncryptedTotal_Start(trigger)
    \/ loadEncryptedTotal_BlockNumber
    \/ loadEncryptedTotal_Code
    \/ loadEncryptedTotal_HasInit
    \/ loadEncryptedTotal_Total
    \/ loadEncryptedTotal_Loaded
    \/ decryptTotal_Start
    \/ decryptTotal_HasInit
    \/ decryptTotal_Total
    \/ decryptTotal_Signed
    \/ decryptTotal_Decrypted

SpecClient == InitClient /\ [][NextClient]_vars

(* ====================================================================== *)
(*                        The new-expense dialog                          *)
(* ====================================================================== *)

\* what the amount field can hold when the form is submitted, as
\* characters: nothing, "0", "1000", "1000.5" and "4294967296"
AmountTexts ==
    { <<>>, <<"0">>, <<"1", "0", "0", "0">>, <<"1", "0", "0", "0", ".", "5">>,
      <<"4", "2", "9", "4", "9", "6", "7", "2", "9", "6">> }

\* two of the categories the select offers
DialogCategories == {"materials", "labor"}

\* the Add Expense button of the page: setShowNewExpense(true)
OpenDialog ==
    /\ ButtonsEnabled
    /\ ~showNewExpense
    /\ showNewExpense' = TRUE
    /\ UNCHANGED <<chainVars, lastCall, configVars, localVars, isLoading, message,
                   flows, mempool, settled, started, dialog, submitting, toast>>

\* the Cancel button: onOpenChange(false); setError(null); setAmount("")
Cancel ==
    /\ ButtonsEnabled
    /\ showNewExpense
    /\ showNewExpense' = FALSE
    /\ dialog' = [dialog EXCEPT !.error = NoMessage, !.amount = <<>>]
    /\ UNCHANGED <<chainVars, lastCall, configVars, localVars, isLoading, message,
                   flows, mempool, settled, started, submitting, toast>>

\* the form is submitted with the amount and the category entered
handleSubmit(f, text, category) ==
    /\ ButtonsEnabled
    /\ showNewExpense
    /\ LET amountNum == parseFloat(text)
           entered == [amount |-> text, category |-> category, error |-> NoMessage]
       IN  IF isNaN(amountNum) \/ ~Positive(amountNum)
           THEN /\ dialog' = [entered EXCEPT
                                !.error = <<"Please enter a valid amount greater than 0">>]
                /\ UNCHANGED <<chainVars, lastCall, configVars, localVars, isLoading,
                               message, flows, mempool, settled, started,
                               showNewExpense, submitting, toast>>
           ELSE IF category = ""
           THEN /\ dialog' = [entered EXCEPT !.error = <<"Please select a category">>]
                /\ UNCHANGED <<chainVars, lastCall, configVars, localVars, isLoading,
                               message, flows, mempool, settled, started,
                               showNewExpense, submitting, toast>>
           ELSE /\ addExpenseCalled(f, amountNum, category)
                /\ IF flows'[f].pc = "idle"
                   THEN /\ toast' = ErrorToast(settled'.error)
                        /\ dialog' = EmptyForm
                        /\ showNewExpense' = FALSE
                        /\ UNCHANGED submitting
                   ELSE /\ dialog' = entered
                        /\ submitting' = submitting \cup {f}
                        /\ UNCHANGED <<showNewExpense, toast>>

NextDialog ==
    \/ OpenDialog
    \/ Cancel
    \/ \E f \in AddFlowIds, text \in AmountTexts, c \in DialogCategories :
          handleSubmit(f, text, c)
    \/ \E f \in AddFlowIds : AddExpense_Encrypted(f)
    \/ \E f \in AddFlowIds : AddExpense_CodeChecked(f)
    \/ \E f \in AddFlowIds : AddExpense_Sent(f)
    \/ \E t \in ClientBlockTimes : MineTx(t)
    \/ \E f \in AddFlowIds : AddExpense_Confirmed(f)
    \/ \E f \in AddFlowIds : AddExpense_Slept(f)
    \/ \E f \in AddFlowIds : AddExpense_RefreshCode(f)
    \/ \E f \in AddFlowIds : AddExpense_RefreshInit(f)
    \/ \E f \in AddFlowIds : AddExpense_RefreshTotal(f)
    \/ \E f \in AddFlowIds : AddExpense_Refreshed(f)
    \/ \E f \in AddFlowIds : loadExpenseRecords_Count(f)
    \/ \E f \in AddFlowIds : loadExpenseRecords_Item(f)

\* the page with the dialog as the only caller of addExpense
SpecDialog == InitClient /\ [][NextDialog]_vars

(* ====================================================================== *)
(*                              Properties                                *)
(* ====================================================================== *)

\* the step just taken was an addExpense transaction sent by u
AddStep(u) == lastCall'.fn = "addExpense" /\ lastCall'.sender = u
\* ... that ran to its end
AddOkStep(u) == AddStep(u) /\ lastCall'.ok

ViewFns == {"getEncryptedMonthlyTotal", "getExpenseRecordCount",
            "hasInitialized", "getExpenseRecord"}
ViewStep == lastCall'.fn \in ViewFns

\* the plain sum of the amounts of a user's successful adds, half by half,
\* with nothing dropped: SumHi * 2^16 + SumLo
RECURSIVE SumLo(_)
SumLo(calls) == IF calls = <<>> THEN 0 ELSE Head(calls).amount.lo + SumLo(Tail(calls))
RECURSIVE SumHi(_)
SumHi(calls) == IF calls = <<>> THEN 0 ELSE Head(calls).amount.hi + SumHi(Tail(calls))
\* the sum's low 32 bits, and how many times 2^32 goes into it
SumMod32(calls) ==
    Uint32((SumHi(calls) + (SumLo(calls) \div Half)) % Half, SumLo(calls) % Half)
SumOverflow(calls) == (SumHi(calls) + (SumLo(calls) \div Half)) \div Half

DecryptedTotal(u) == userDecrypt(getEncryptedMonthlyTotal(u), ThisContract, u)

\* C1 (as stated): after N >= 1 successful adds by a user, decrypting the
\* user's total yields exactly a1 + ... + aN.
C1_ExactSum ==
    \A u \in Users :
        Len(added[u]) >= 1 =>
            /\ DecryptedTotal(u) = SumMod32(added[u])
            /\ SumOverflow(added[u]) = 0

\* C1 (amended): after N >= 1 successful adds by a user, the user can
\* decrypt the total and it yields (a1 + ... + aN) mod 2^32, which is the
\* exact sum whenever the sum is below 2^32.
C1_SumMod32 ==
    \A u \in Users :
        Len(added[u]) >= 1 => DecryptedTotal(u) = SumMod32(added[u])

\* three adds whose sum has wrapped past 2^32
C1_Witness ==
    \E u \in Users :
        /\ Len(added[u]) = 3
        /\ SumOverflow(added[u]) = 1
        /\ DecryptedTotal(u) = SumMod32(added[u])
        /\ DecryptedTotal(u) # Denied

\* C2: getExpenseRecordCount(user) is the number of the user's successful
\* addExpense calls; a successful add raises it by exactly 1, a failed add
\* and every call by anyone else leave it unchanged.
C2_CountIsSuccessfulAdds ==
    /\ [](\A u \in Users : getExpenseRecordCount(u) = Len(added[u]))
    /\ [][\A u \in Users :
            getExpenseRecordCount(u)' =
                getExpenseRecordCount(u) + (IF AddOkStep(u) THEN 1 ELSE 0)]_vars

\* a user with two successful adds, after a failed call by the other user
C2_Witness ==
    \E u \in Users :
        /\ getExpenseRecordCount(u) = 2
        /\ lastCall.fn = "addExpense" /\ ~lastCall.ok /\ lastCall.sender # u

\* C3: record i of a user is the (block time, category) of the user's
\* (i+1)-th successful add, and a readable record never changes, moves or
\* disappears.
C3_RecordsAppendOnly ==
    /\ [](\A u \in Users : \A i \in 0 .. MaxAdds :
            i < Len(added[u]) =>
                getExpenseRecord(u, i) =
                    [ok |-> TRUE,
                     ret |-> <<added[u][i + 1].timestamp, added[u][i + 1].category>>])
    /\ [][\A u \in Users : \A i \in 0 .. MaxAdds :
            getExpenseRecord(u, i).ok =>
                getExpenseRecord(u, i)' = getExpenseRecord(u, i)]_vars

\* three records of one user, with differing categories and block times
C3_Witness ==
    \E u \in Users :
        /\ getExpenseRecordCount(u) = 3
        /\ getExpenseRecord(u, 0).ret[2] # getExpenseRecord(u, 1).ret[2]
        /\ getExpenseRecord(u, 0).ret[1] < getExpenseRecord(u, 2).ret[1]

\* what the contract holds for one user
Ledger(u) == <<_hasInitialized[u], _encryptedMonthlyTotals[u], _expenseRecords[u]>>

\* C4: an addExpense call by A, successful or not, leaves B's initialized
\* flag, total handle, record count and records unchanged, for A # B.
C4_LedgersIndependent ==
    [][\A a \in Users : \A b \in Users \ {a} :
            AddStep(a) => Ledger(b)' = Ledger(b)]_vars

\* both users hold a ledger, the last step being an add by the other one
C4_Witness ==
    /\ \A u \in Users : hasInitialized(u)
    /\ \E u \in Users : getExpenseRecordCount(u) = 2
    /\ lastCall.fn = "addExpense" /\ lastCall.ok
    /\ getExpenseRecordCount(lastCall.sender) = 1

\* C5: a user with no successful add reads as uninitialized, with the zero
\* handle as total and no records; the view calls return just that and
\* change no state.
C5_NeverAddedReadsEmpty ==
    /\ [](\A u \in Users :
            Len(added[u]) = 0 =>
                /\ hasInitialized(u) = FALSE
                /\ getEncryptedMonthlyTotal(u) = ZeroHandle
                /\ getExpenseRecordCount(u) = 0)
    /\ [](lastCall.fn \in ViewFns /\ Len(added[lastCall.user]) = 0 =>
            \/ lastCall.fn = "hasInitialized" /\ lastCall.ok /\ lastCall.ret = FALSE
            \/ lastCall.fn = "getEncryptedMonthlyTotal" /\ lastCall.ok
                  /\ lastCall.ret = ZeroHandle
            \/ lastCall.fn = "getExpenseRecordCount" /\ lastCall.ok /\ lastCall.ret = 0
            \/ lastCall.fn = "getExpenseRecord" /\ ~lastCall.ok)
    /\ [][ViewStep =>
            UNCHANGED <<contractVars, events, runtimeVars, now, added>>]_vars

\* a view call about a user who never added, after the other user did
C5_Witness ==
    /\ lastCall.fn = "getEncryptedMonthlyTotal"
    /\ Len(added[lastCall.user]) = 0
    /\ lastCall.ret = ZeroHandle
    /\ \E u \in Users : Len(added[u]) = 2

\* C6: a user becomes initialized exactly once, in the user's first
\* successful add, which stores the decoded amount itself as the total and
\* performs no addition; every later add stores the result of an FHE.add of
\* the old total and the decoded amount; the flag never returns to false.
C6_InitializedOnce ==
    /\ [](\A u \in Users : hasInitialized(u) <=> Len(added[u]) >= 1)
    /\ [][\A u \in Users :
            /\ hasInitialized(u) => hasInitialized(u)'
            /\ (~hasInitialized(u) /\ hasInitialized(u)') => AddOkStep(u)
            /\ (AddOkStep(u) /\ ~hasInitialized(u)) =>
                  /\ hasInitialized(u)'
                  /\ getEncryptedMonthlyTotal(u)' = lastCall'.handle
                  /\ UNCHANGED <<fheAdds, ciphertexts>>
            /\ (AddOkStep(u) /\ hasInitialized(u)) =>
                  /\ fheAdds' \ fheAdds =
                        {[lhs |-> getEncryptedMonthlyTotal(u),
                          rhs |-> lastCall'.handle,
                          result |-> getEncryptedMonthlyTotal(u)']}
                  /\ getEncryptedMonthlyTotal(u)' \notin DOMAIN ciphertexts]_vars

\* a user after a first add and two later ones, each of which added
C6_Witness ==
    \E u \in Users :
        /\ hasInitialized(u)
        /\ Len(added[u]) = 3
        /\ Cardinality(fheAdds) = 2
        /\ \E op \in fheAdds : op.result = getEncryptedMonthlyTotal(u)

\* C7: after every successful add the sender and the contract hold a grant
\* over the sender's new total handle, so every initialized user's current
\* total is decryptable by the user and usable by the contract; the handle
\* is a new one on every add and held no grant before the add.
C7_TotalAuthorized ==
    /\ [](\A u \in Users :
            hasInitialized(u) =>
                /\ <<getEncryptedMonthlyTotal(u), u>> \in acl
                /\ <<getEncryptedMonthlyTotal(u), ThisContract>> \in acl)
    /\ [][\A u \in Users :
            AddOkStep(u) =>
                /\ getEncryptedMonthlyTotal(u)' # getEncryptedMonthlyTotal(u)
                /\ \A a \in Addresses : <<getEncryptedMonthlyTotal(u)', a>> \notin acl
                /\ <<getEncryptedMonthlyTotal(u)', u>> \in acl'
                /\ <<getEncryptedMonthlyTotal(u)', ThisContract>> \in acl']_vars

\* a total that is the result of an addition, authorized for its owner,
\* whose earlier total handle differs from it
C7_Witness ==
    \E u \in Users : \E op \in fheAdds :
        /\ op.result = getEncryptedMonthlyTotal(u)
        /\ op.lhs # op.result
        /\ <<op.result, u>> \in acl
        /\ <<op.lhs, u>> \in acl

\* C8: nobody but the owner and the contract holds a grant over a user's
\* current total, and an add by one user grants nothing over another
\* user's total.
C8_OnlyOwnerDecrypts ==
    /\ [](\A u \in Users : \A a \in Addresses :
            (hasInitialized(u) /\ <<getEncryptedMonthlyTotal(u), a>> \in acl) =>
                a \in {u, ThisContract})
    /\ [][\A s \in Users :
            AddStep(s) =>
                /\ acl' \ acl \subseteq
                      {<<getEncryptedMonthlyTotal(s)', s>>,
                       <<getEncryptedMonthlyTotal(s)', ThisContract>>}
                /\ \A u \in Users \ {s} : \A a \in Addresses :
                      <<getEncryptedMonthlyTotal(u), a>> \in acl' =>
                          <<getEncryptedMonthlyTotal(u), a>> \in acl]_vars

\* both users hold a total, each decryptable by its owner and denied to the
\* other, after one of them replayed the other's input and proof in vain
C8_Witness ==
    /\ \A u \in Users : hasInitialized(u)
    /\ \A u \in Users : \A v \in Users \ {u} :
          /\ userDecrypt(getEncryptedMonthlyTotal(u), ThisContract, u) # Denied
          /\ userDecrypt(getEncryptedMonthlyTotal(u), ThisContract, v) = Denied
    /\ lastCall.fn = "addExpense" /\ ~lastCall.ok
    /\ lastCall.proof # EmptyProof
    /\ lastCall.proof.userAddress # lastCall.sender
    /\ lastCall.proof.handle = lastCall.handle

\* the proof was issued for this handle, this caller and this contract
ProofVerifies(handle, proof, caller) ==
    \E k \in DOMAIN EncryptedInputs :
        /\ handle = k
        /\ proof = [handle |-> k, userAddress |-> caller, contractAddress |-> ThisContract]
        /\ EncryptedInputs[k].user = caller
        /\ EncryptedInputs[k].contract = ThisContract

\* C9: addExpense fails as a whole when the proof does not verify against
\* (handle, caller, contract): totals, flags, records, grants and the event
\* log are unchanged; with a proof that verifies it succeeds, whatever the
\* category.
C9_InvalidProofReverts ==
    /\ [](\A s \in Users : \A sub \in Submissions : \A c \in Categories :
            (lastCall = Idle /\ Len(events) < 2 * MaxAdds) =>
                (ENABLED addExpense(s, sub[1], sub[2], c, now)
                    <=> ProofVerifies(sub[1], sub[2], s)))
    /\ [][\A s \in Users :
            AddStep(s) =>
                /\ lastCall'.ok <=> ProofVerifies(lastCall'.handle, lastCall'.proof, s)
                /\ ~lastCall'.ok => UNCHANGED <<contractVars, events, runtimeVars, added>>
                /\ lastCall'.ok => Len(events') = Len(events) + 2]_vars

\* a failed add under a proof issued to the caller for another contract,
\* after the caller's ledger was initialized with a category the client
\* does not offer
C9_Witness ==
    /\ lastCall.fn = "addExpense" /\ ~lastCall.ok
    /\ lastCall.proof.userAddress = lastCall.sender
    /\ lastCall.proof.contractAddress = OtherContract
    /\ lastCall.proof.handle = lastCall.handle
    /\ getExpenseRecordCount(lastCall.sender) = 1
    /\ getExpenseRecord(lastCall.sender, 0).ret[2] = "?"

\* C10: getExpenseRecord(user, index) fails with the out-of-bounds message
\* for every index >= the user's record count, returns the record for every
\* index below it, and changes no state either way.
C10_RecordIndexBounds ==
    /\ [](lastCall.fn = "getExpenseRecord" =>
            /\ lastCall.ok <=> lastCall.index < Len(added[lastCall.user])
            /\ lastCall.ok =>
                  lastCall.ret = <<added[lastCall.user][lastCall.index + 1].timestamp,
                                   added[lastCall.user][lastCall.index + 1].category>>
            /\ ~lastCall.ok => lastCall.ret = "Record index out of bounds")
    /\ [][lastCall'.fn = "getExpenseRecord" =>
            UNCHANGED <<contractVars, events, runtimeVars, now, added>>]_vars

\* a read at index = count that failed, for a user who holds records
C10_Witness ==
    /\ lastCall.fn = "getExpenseRecord"
    /\ ~lastCall.ok
    /\ lastCall.index = getExpenseRecordCount(lastCall.user)
    /\ lastCall.index = 2

\* C12: every successful addExpense emits exactly two events,
\* ExpenseAdded(caller, block time, category) and then
\* MonthlyTotalUpdated(caller, block time), both carrying the timestamp
\* stored in the record the same call appended; a failed addExpense emits
\* none.
C12_TwoEventsPerAdd ==
    [][\A u \in Users :
          /\ AddOkStep(u) =>
                LET n == Len(events)
                    record == _expenseRecords'[u][Len(_expenseRecords'[u])]
                IN  /\ Len(events') = n + 2
                    /\ SubSeq(events', 1, n) = events
                    /\ events'[n + 1] =
                          [name |-> "ExpenseAdded", user |-> u, timestamp |-> now',
                           category |-> lastCall'.category]
                    /\ events'[n + 2] =
                          [name |-> "MonthlyTotalUpdated", user |-> u, timestamp |-> now']
                    /\ Len(_expenseRecords'[u]) = Len(_expenseRecords[u]) + 1
                    /\ record.timestamp = events'[n + 1].timestamp
                    /\ record.timestamp = events'[n + 2].timestamp
                    /\ record.category = events'[n + 1].category
          /\ (AddStep(u) /\ ~lastCall'.ok) => events' = events]_vars

\* the event log after two successful adds in two blocks and a failed add
C12_Witness ==
    /\ lastCall.fn = "addExpense" /\ ~lastCall.ok
    /\ Len(events) = 4
    /\ events[1].name = "ExpenseAdded" /\ events[2].name = "MonthlyTotalUpdated"
    /\ events[3].name = "ExpenseAdded" /\ events[4].name = "MonthlyTotalUpdated"
    /\ events[1].timestamp = 1 /\ events[3].timestamp = 2
    /\ events[3].user = lastCall.sender
    /\ _expenseRecords[events[3].user][Len(_expenseRecords[events[3].user])].timestamp = 2

\* the two latest transactions of the account, sent one while the other
\* was pending, are both confirmed: the ledger before them, and their
\* amounts
BothConfirmed(n) ==
    /\ n \in DOMAIN mempool /\ n >= 2
    /\ mempool[n].before # Nothing
    /\ mempool[n - 1].status = "confirmed" /\ mempool[n].status = "confirmed"
    /\ n = Len(mempool)
TwoAddsOnto(n) ==
    << [amount |-> mempool[n].before.total],
       [amount |-> ciphertexts[mempool[n - 1].handle]],
       [amount |-> ciphertexts[mempool[n].handle]] >>

\* C11 (as stated): when two addExpense transactions of one user with
\* amounts a and b are in flight at once, then once both are confirmed the
\* user's total decrypts to exactly the previous total plus a plus b and
\* the record count has grown by exactly 2.
C11_ExactSumOfBoth ==
    \A n \in DOMAIN mempool :
        BothConfirmed(n) =>
            /\ DecryptedTotal(address) = SumMod32(TwoAddsOnto(n))
            /\ SumOverflow(TwoAddsOnto(n)) = 0
            /\ getExpenseRecordCount(address) = mempool[n].before.count + 2

\* C11 (amended): when two addExpense transactions of one user with amounts
\* a and b are in flight at once, the chain applies them one after the
\* other, and once both are confirmed the user's total decrypts to the
\* previous total plus a plus b modulo 2^32 and the record count has grown
\* by exactly 2, wherever the client flows stand.
C11_RaceFree ==
    /\ [](\A n \in DOMAIN mempool :
            BothConfirmed(n) =>
                /\ DecryptedTotal(address) = SumMod32(TwoAddsOnto(n))
                /\ getExpenseRecordCount(address) = mempool[n].before.count + 2)
    /\ [][\A n \in DOMAIN mempool :
            mempool'[n].status # mempool[n].status =>
                /\ \A m \in DOMAIN mempool : m # n => mempool'[m] = mempool[m]
                /\ mempool'[n].status = "confirmed"
                /\ PlainTotal(address)' =
                      FheAddPlain(PlainTotal(address), ciphertexts[mempool[n].handle])
                /\ getExpenseRecordCount(address)' = getExpenseRecordCount(address) + 1]_vars

\* two transactions were pending together and both are confirmed while
\* both flows still wait for their receipts; their amounts differ
C11_Witness ==
    /\ BothConfirmed(2)
    /\ flows["add1"].pc = "wait" /\ flows["add2"].pc = "wait"
    /\ mempool[1].handle # mempool[2].handle
    /\ DecryptedTotal(address) = Uint32(0, 999)
    /\ getExpenseRecordCount(address) = 2

\* the message of the first check of addExpense that fails, the amount
\* check being the last
FirstMissing ==
    IF contractAddress = NoAddress
    THEN <<"Contract address not configured. Please set VITE_CONTRACT_ADDRESS in .env.local">>
    ELSE IF "ethersSigner" \notin available
    THEN <<"Wallet signer not available. Please ensure your wallet is connected.">>
    ELSE IF "fhevmInstance" \notin available
    THEN <<"FHEVM instance not initialized. Please wait for initialization.">>
    ELSE IF "address" \notin available
    THEN <<"Wallet address not available. Please connect your wallet.">>
    ELSE IF "ethersProvider" \notin available
    THEN <<"Ethers provider not available.">>
    ELSE <<"Expense amount must be greater than 0">>

\* a call of addExpense is rejected by its preconditions in this step
AddRejectedAtOnce ==
    /\ started' # started
    /\ settled'.op = "addExpense"
    /\ settled'.phase = "precondition"

\* C13: client addExpense fails fast: with the contract address, the
\* signer, the encryption instance, the wallet address or the provider
\* missing, or amount <= 0, the call never reaches its first await; it sets
\* the message of the first failing check and rejects with that error, and
\* leaves the loading flag, the local state, the flows, the mempool and the
\* chain unchanged.
C13_FailsFast ==
    [][/\ \A f \in AddFlowIds :
             (flows[f].pc = "idle" /\ flows'[f].pc # "idle") =>
                 /\ contractAddress # NoAddress
                 /\ available = Requirements
                 /\ Positive(flows'[f].amount)
                 /\ flows'[f].pc = "encrypt"
       /\ AddRejectedAtOnce =>
             /\ settled'.result = "rejected"
             /\ settled'.error.message = FirstMissing
             /\ message' = FirstMissing
             /\ UNCHANGED <<isLoading, localVars, flows, mempool, chainVars>>]_vars

\* after one add has gone through and its records are loaded, a second
\* call with an amount that is not positive has been rejected at once
C13_Witness ==
    /\ settled.op = "addExpense" /\ settled.phase = "precondition"
    /\ message = <<"Expense amount must be greater than 0">>
    /\ available = Requirements
    /\ ~isLoading
    /\ \A f \in FlowIds : flows[f].pc = "idle"
    /\ Len(expenseRecords) = 1
    /\ encryptedTotal # Undefined

\* the message shows the failure: it holds the error's reason or text, or
\* is the not-authorized notice of decryptTotal
Shows(text, error) ==
    \/ error.reason # <<>> /\ Includes(text, error.reason)
    \/ error.message # <<>> /\ Includes(text, error.message)
    \/ text = NotPermittedText

\* C14: every failure of a client operation (addExpense, decryptTotal,
\* loadEncryptedTotal, loadExpenseRecords) is converted into a message
\* shown to the user and rethrown to the caller; only a read-refresh
\* failure after a confirmed add is not rethrown (it becomes the "refresh
\* manually" notice), and no failure is silently swallowed.
C14_EveryFailureSurfaces ==
    [][(settled' # settled /\ settled'.op # "none" /\ settled'.error # NoError) =>
          \/ /\ settled'.op = "addExpense"
             /\ settled'.phase = "refresh"
             /\ settled'.result = "resolved"
             /\ message' = RefreshFailedText
          \/ /\ settled'.result = "rejected"
             /\ Shows(message', settled'.error)]_vars

\* C15: when decryptTotal fails because the caller holds no valid
\* authorization over the handle, the message is the specific
\* not-authorized / try-again notice, and for every other failure it is
\* "Error decrypting: " followed by the raw message; neither kind of
\* failure is reported as the other.
C15_AuthorizationClassified ==
    [][(/\ settled' # settled
        /\ settled'.op = "decryptTotal"
        /\ settled'.result = "rejected") =>
          IF settled'.error.cause = "acl"
          THEN message' = NotPermittedText
          ELSE message' = <<"Error decrypting: ">> \o settled'.error.message]_vars

NotInitializedText ==
    <<"You haven't added any expenses yet. Please add expenses first before decrypting.">>

C17_HardStopWithoutAddress ==
    viteContractAddress = NoAddress =>
        /\ isConnected => Page = "Contract Not Configured"
        /\ \A f \in FlowIds : flows[f].pc = "idle"
        /\ mempool = <<>>
        /\ settled.op = "addExpense" =>
               /\ settled.result = "rejected"
               /\ settled.error.message =
                     <<"Contract address not configured. Please set VITE_CONTRACT_ADDRESS in .env.local">>

\* C18: from the moment a client addExpense passes its preconditions until
\* it settles, the loading flag stays true, so the buttons stay disabled
\* and no second add is in flight beside it.
C18_FlagHeldThroughAdd ==
    \A f \in AddFlowIds :
        flows[f].pc # "idle" =>
            /\ isLoading
            /\ ~ButtonsEnabled
            /\ \A g \in AddFlowIds \ {f} : flows[g].pc = "idle"

\* how far a flow is from its end: every await it passes, and every answer
\* that is on its way, brings it closer
StepsLeft(r) ==
    CASE r.pc = "idle" -> 0
      [] r.pc = "afterRecords" -> 1
      [] r.pc = "recordItem" -> 1 + (r.count - r.i)
      [] r.pc = "recordCount" -> 100
      [] r.pc \in {"total", "refreshTotal"} ->
            IF "answer" \in DOMAIN r THEN 101 ELSE 102
      [] r.pc \in {"hasInit", "refreshInit"} ->
            IF "answer" \in DOMAIN r THEN 103 ELSE 104
      [] r.pc = "refreshCode" -> 106
      [] r.pc = "sleep" -> 108
      [] r.pc = "wait" -> 110
      [] r.pc = "send" -> 112
      [] r.pc = "getCode" -> 114
      [] r.pc = "blockNumber" -> 116
      [] r.pc = "encrypt" -> 118

\* C19: every run of client addExpense that has passed its preconditions
\* and every run of loadEncryptedTotal that has passed its guard moves
\* closer to its end each time a call it awaits settles, and on every exit
\* (success, thrown error, early return) the step that ends it leaves the
\* loading flag false.
C19_FlagClearedOnExit ==
    [][\A f \in AddFlowIds \cup {"load"} :
          (flows[f].pc # "idle" /\ flows'[f] # flows[f]) =>
              /\ StepsLeft(flows'[f]) < StepsLeft(flows[f])
              /\ flows'[f].pc = "idle" => ~isLoading']_vars

\* an add that passed its preconditions has ended with a thrown error
\* after its transaction was sent, and the flag is false
C19_Witness ==
    /\ settled.op = "addExpense" /\ settled.result = "rejected"
    /\ settled.phase = "write"
    /\ mempool # <<>>
    /\ \A f \in FlowIds : flows[f].pc = "idle"
    /\ ~isLoading

\* the awaits of addExpense before the refresh
WritePhase == {"encrypt", "getCode", "send", "wait"}

RefreshReads == {"refreshCode", "refreshInit", "refreshTotal"}

\* C21: once the addExpense transaction is confirmed, a failure of a
\* post-confirmation read (deployed-code check, hasInitialized,
\* getEncryptedMonthlyTotal, record reload) does not make client addExpense
\* reject: the call resolves and its final message is the refresh-manually
\* notice, not a success message and not an error.
C21_RefreshFailureDegrades ==
    [][\A f \in AddFlowIds :
          /\ (/\ flows[f].pc \in RefreshReads /\ flows'[f].pc = "idle"
              /\ settled'.error # NoError) =>
                /\ settled'.op = "addExpense" /\ settled'.result = "resolved"
                /\ message' = RefreshFailedText
          /\ (/\ flows[f].pc = "afterRecords" /\ flows'[f].pc = "idle"
              /\ settled.op = "loadExpenseRecords" /\ settled.flow = f
              /\ settled.error # NoError) =>
                /\ settled'.op = "addExpense" /\ settled'.result = "resolved"
                /\ message' = RefreshFailedText]_vars

\* the order of the awaits of addExpense: each pair is one await and the
\* next one
AddOrder ==
    { <<"idle", "encrypt">>, <<"encrypt", "getCode">>, <<"getCode", "send">>,
      <<"send", "wait">>, <<"wait", "sleep">>, <<"sleep", "refreshCode">>,
      <<"refreshCode", "refreshInit">>, <<"refreshInit", "refreshTotal">>,
      <<"refreshTotal", "recordCount">>, <<"refreshTotal", "afterRecords">>,
      <<"recordCount", "recordItem">>, <<"recordCount", "afterRecords">>,
      <<"recordItem", "afterRecords">> }

\* C22: in client addExpense the steps occur in the order encrypt,
\* deployed-code check, transaction submission, confirmation, settling
\* delay, re-read; no transaction is submitted where the configured address
\* holds no code, nor with an encryption result that lacks the handle or
\* the proof; hasInitialized, the total and the records are re-read only
\* after the transaction is confirmed.
C22_StepsInOrder ==
    /\ [](CodeAtContractAddress = {"0x"} => mempool = <<>>)
    /\ [][/\ \A f \in AddFlowIds :
                /\ flows'[f].pc # flows[f].pc =>
                      \/ <<flows[f].pc, flows'[f].pc>> \in AddOrder
                      \/ flows'[f].pc = "idle"
                /\ (flows[f].pc = "getCode" /\ flows'[f].pc = "send") =>
                      /\ flows[f].handle # ZeroHandle
                      /\ flows[f].inputProof # EmptyProof
                /\ (flows[f].pc = "wait" /\ flows'[f].pc = "sleep") =>
                      mempool[flows[f].tx].status = "confirmed"
          /\ Len(mempool') # Len(mempool) =>
                \E f \in AddFlowIds :
                    /\ flows[f].pc = "send" /\ flows'[f].pc = "wait"
                    /\ mempool' = Append(mempool, mempool'[Len(mempool')])
                    /\ flows'[f].tx = Len(mempool')
                    /\ mempool'[Len(mempool')].handle = flows[f].handle
                    /\ mempool'[Len(mempool')].inputProof = flows[f].inputProof
                    /\ "0x6080" \in CodeAtContractAddress]_vars

\* an add has gone through every step: its transaction is confirmed, the
\* total is re-read and the records are loaded
C22_Witness ==
    /\ flows["add1"].pc = "afterRecords"
    /\ mempool # <<>> /\ mempool[1].status = "confirmed"
    /\ encryptedTotal = Hex(getEncryptedMonthlyTotal(address))
    /\ Len(expenseRecords) = 1
    /\ isLoading

\* decryptTotal ends with a plaintext in this step
DecryptSucceeds ==
    /\ flows["decrypt"].pc = "decrypt"
    /\ flows'["decrypt"].pc = "idle"
    /\ settled'.op = "decryptTotal" /\ settled'.result = "resolved"

\* C23: on a successful decryptTotal, decryptedTotal is set to the
\* plaintext the decryption service returned under exactly the handle that
\* was asked for, the handle fetched from the contract by this call, and to
\* 0 when the returned mapping has no entry under that handle.
C23_DecryptedIsEntryOfHandle ==
    [][/\ DecryptSucceeds =>
             LET asked == flows["decrypt"].handle
                 returned == settled'.returned
             IN  /\ returned.handle = asked => decryptedTotal' = returned.value
                 /\ returned.handle # asked => decryptedTotal' = Uint32(0, 0)
                 /\ message' = <<"Decrypted monthly total: ", ToString(decryptedTotal')>>
       /\ (flows["decrypt"].pc = "total" /\ flows'["decrypt"].pc = "sign") =>
             flows'["decrypt"].handle = Hex(getEncryptedMonthlyTotal(address))
       /\ (flows["decrypt"].pc \in {"sign", "decrypt"}
             /\ flows'["decrypt"].pc \in {"sign", "decrypt"}) =>
             flows'["decrypt"].handle = flows["decrypt"].handle]_vars

\* a decryption has ended with the service's answer filed under another
\* key than the handle asked for: the total shown is 0, the ledger's is not
C23_Witness ==
    /\ settled.op = "decryptTotal" /\ settled.result = "resolved"
    /\ settled.phase = "read"
    /\ settled.returned.handle # encryptedTotal
    /\ settled.returned.value = Uint32(0, 1000)
    /\ encryptedTotal = Hex(getEncryptedMonthlyTotal(address))
    /\ decryptedTotal = Uint32(0, 0)

\* adding the amount to the total leaves the 32 bits: the carry out of the
\* high half
CarryOut(total, amount) ==
    (total.hi + amount.hi + ((total.lo + amount.lo) \div Half)) \div Half

\* C24: the encrypted total is a 32-bit unsigned value: after the
\* successful adds of a user it decrypts to the sum of their amounts modulo
\* 2^32 and lies within 0..2^32-1; an add that takes the plain sum past
\* 2^32-1 is not refused, it is recorded and counted like any other, and the
\* total wraps.
C24_TotalWrapsAt32Bits ==
    /\ [](\A u \in Users :
            hasInitialized(u) =>
                /\ DecryptedTotal(u) # Denied
                /\ DecryptedTotal(u).hi \in 0 .. Half - 1
                /\ DecryptedTotal(u).lo \in 0 .. Half - 1
                /\ DecryptedTotal(u) = SumMod32(added[u]))
    /\ [](\A u \in Users : \A k \in DOMAIN EncryptedInputs : \A c \in Categories :
            (/\ lastCall = Idle
             /\ Len(added["alice"]) + Len(added["bob"]) < MaxAdds
             /\ ProofVerifies(k, encrypt(k), u)
             /\ CarryOut(PlainTotal(u), EncryptedInputs[k].value) > 0) =>
                ENABLED addExpense(u, k, encrypt(k), c, now))
    /\ [][\A u \in Users :
            (AddOkStep(u) /\ CarryOut(PlainTotal(u), ciphertexts[lastCall'.handle]) > 0) =>
                LET total == PlainTotal(u)
                    amount == ciphertexts[lastCall'.handle]
                IN  /\ DecryptedTotal(u)' =
                          Uint32((total.hi + amount.hi + ((total.lo + amount.lo) \div Half)) % Half,
                                 (total.lo + amount.lo) % Half)
                    /\ getExpenseRecordCount(u)' = getExpenseRecordCount(u) + 1
                    /\ Len(added'[u]) = Len(added[u]) + 1
                    /\ added'[u][Len(added'[u])].amount = amount
                    /\ SumOverflow(added'[u]) = SumOverflow(added[u]) + 1]_vars

\* alice has added 2^32-1 and then 1000: the second add went through, two
\* records are kept and the total reads 999
C24_Witness ==
    /\ lastCall.fn = "addExpense" /\ lastCall.ok /\ lastCall.sender = "alice"
    /\ Len(added["alice"]) = 2
    /\ added["alice"][1].amount = MaxUint32
    /\ added["alice"][2].amount = Uint32(0, 1000)
    /\ getExpenseRecordCount("alice") = 2
    /\ DecryptedTotal("alice") = Uint32(0, 999)

\* C25: whenever the client holds a handle in encryptedTotal and its
\* decryptedTotal is defined, decryptedTotal is the plaintext of that
\* handle (or the 0 that stands for an entry the service left out): after
\* an add has refreshed encryptedTotal to the new handle, no total
\* decrypted from an earlier handle is still shown.
C25_DecryptedMatchesHandle ==
    (decryptedTotal # Undefined /\ encryptedTotal # Undefined) =>
        \/ decryptedTotal = ciphertexts[encryptedTotal.digits]
        \/ decryptedTotal = Uint32(0, 0)

\* C26: with a single client acting for the user, a read that started
\* before an add was confirmed never overwrites the newer handle: once the
\* client's encryptedTotal is the user's current on-chain total handle, no
\* step of addExpense's refresh, of loadEncryptedTotal or of decryptTotal
\* replaces it while the chain stays as it is (unless the provider reports
\* that no contract is deployed), so that it still refers to the current
\* handle when no operation is in flight.
C26_NeverOverwritesNewer ==
    [][(/\ hasInitialized(address)
        /\ encryptedTotal = Hex(getEncryptedMonthlyTotal(address))
        /\ UNCHANGED chainVars
        /\ message' # NotDeployedText) =>
            encryptedTotal' = encryptedTotal]_vars

\* the flows that run loadExpenseRecords
RecordLoaders == AddFlowIds \cup {"load"}

\* the first n on-chain records of the account as the client keeps them
FirstRecords(n) ==
    [j \in 1 .. n |-> [timestamp |-> _expenseRecords[address][j].timestamp,
                       category |-> _expenseRecords[address][j].category,
                       index |-> j - 1]]

\* C27: loadExpenseRecords never asks for an index out of bounds, however
\* it interleaves with addExpense transactions: the count it read stays at
\* most the on-chain count while it iterates, the records it has gathered
\* are the first on-chain records in index order, and the list it stores is
\* exactly the first count on-chain records, each with its position as
\* index.
C27_RecordsLoadedInBounds ==
    /\ [](\A f \in RecordLoaders :
            flows[f].pc = "recordItem" =>
                /\ flows[f].i < flows[f].count
                /\ flows[f].count <= getExpenseRecordCount(address)
                /\ RecordIndexInBounds(address, flows[f].i)
                /\ flows[f].records = FirstRecords(flows[f].i))
    /\ [][/\ expenseRecords' # expenseRecords =>
                /\ Len(expenseRecords') <= getExpenseRecordCount(address)
                /\ expenseRecords' = FirstRecords(Len(expenseRecords'))
                /\ \E f \in RecordLoaders :
                      /\ flows[f].pc \in {"recordCount", "recordItem"}
                      /\ flows'[f].pc = "afterRecords"
                      /\ flows[f].pc = "recordItem" =>
                            Len(expenseRecords') = flows[f].count
          /\ \A f \in RecordLoaders :
                (/\ flows[f].pc = "recordItem" /\ flows'[f].pc = "afterRecords"
                 /\ settled'.op = "loadExpenseRecords"
                 /\ settled'.error # NoError) =>
                     settled'.error = FetchError]_vars

\* the effect's load stored the first record only while the chain holds
\* two: the count it read was below the on-chain count
C27_Witness ==
    /\ getExpenseRecordCount(address) = 2
    /\ expenseRecords = FirstRecords(1)
    /\ flows["load"].pc = "afterRecords"
    /\ settled.op = "loadExpenseRecords" /\ settled.flow = "load"
    /\ settled.error = NoError

\* the three readings of "the user has a ledger"
LedgerSigns(u) ==
    <<hasInitialized(u), getExpenseRecordCount(u) >= 1,
      getEncryptedMonthlyTotal(u) # ZeroHandle>>

\* C28: in every reachable contract state and for every user, the flag
\* read by hasInitialized, a record count of at least one and a total that
\* is not the zero handle are all true or all false; every successful add
\* leaves the three true for the sender and as they were for everybody
\* else, and a reverted add leaves them as they were.
C28_LedgerSignsCoincide ==
    /\ [](\A u \in Users :
            LedgerSigns(u) \in {<<TRUE, TRUE, TRUE>>, <<FALSE, FALSE, FALSE>>})
    /\ [][\A u \in Users :
            /\ AddOkStep(u) => LedgerSigns(u)' = <<TRUE, TRUE, TRUE>>
            /\ ~AddOkStep(u) => LedgerSigns(u)' = LedgerSigns(u)]_vars

\* one user with all three signs, after two adds, and one with none
C28_Witness ==
    /\ LedgerSigns("alice") = <<TRUE, TRUE, TRUE>>
    /\ getExpenseRecordCount("alice") = 2
    /\ getEncryptedMonthlyTotal("alice") \in {op.result : op \in fheAdds}
    /\ LedgerSigns("bob") = <<FALSE, FALSE, FALSE>>
    /\ lastCall.fn = "addExpense" /\ ~lastCall.ok /\ lastCall.sender = "bob"

\* C29: every amount the client hands to add32 is a whole number in
\* 1 .. 2^32 - 1: an amount with decimals, NaN or an amount above 2^32 - 1
\* is rejected before the encryption, so no call waits for encrypt() with
\* such an amount and add32 never has one to refuse.
C29_OnlyWholeAmountsEncrypted ==
    /\ \A f \in AddFlowIds :
          flows[f].pc = "encrypt" =>
              IsUint32(flows[f].amount) /\ Positive(flows[f].amount)
    /\ settled.op = "addExpense" => settled.error # Add32Error

\* the step in which the call f of addExpense fails: at once, or at one of
\* its awaits
AddFails(f) ==
    /\ settled'.op = "addExpense" /\ settled'.flow = f
    /\ settled'.result = "rejected"
    /\ \/ flows[f].pc # "idle" /\ flows'[f].pc = "idle"
       \/ started' # started /\ flows'[f].pc = "idle"

\* the step in which the call f of addExpense returns without an error
AddSucceeds(f) ==
    /\ flows[f].pc # "idle" /\ flows'[f].pc = "idle"
    /\ settled'.op = "addExpense" /\ settled'.flow = f
    /\ settled'.result = "resolved"

\* C30: when adding an expense fails the dialog stays open, shows the error
\* and keeps the amount and the category entered; a step of addExpense
\* clears the form and closes the dialog only when the add succeeded, and
\* only then the page raises the toast "Expense added successfully!".
C30_DialogFollowsOutcome ==
    [][\A f \in AddFlowIds :
          /\ AddFails(f) =>
                /\ showNewExpense'
                /\ dialog'.error # NoMessage
                /\ dialog'.amount # <<>>
                /\ flows[f].pc # "idle" =>
                      /\ dialog'.amount = dialog.amount
                      /\ dialog'.category = dialog.category
          /\ (/\ started' # started \/ flows'[f] # flows[f]
              /\ \/ showNewExpense /\ ~showNewExpense'
                 \/ dialog.amount # <<>> /\ dialog'.amount = <<>>
                 \/ toast' = SuccessToast /\ submitting' # submitting) =>
                AddSucceeds(f) \/ \E g \in AddFlowIds \ {f} : AddSucceeds(g)]_vars

====
